---- MODULE Spec2Model ----
(***************************************************************************)
(* Ask Singapore: cohort filtering and sampling, the bounded fan-out of    *)
(* the ask and chat routes, and the sentiment aggregation.                 *)
(*                                                                         *)
(* Strings are sequences of one-character strings, so that toLowerCase,    *)
(* trim and includes are computed and not assumed.  Scores are held in     *)
(* thousandths (the reply generator rounds to 3 decimals), confidences in  *)
(* ten-thousandths, and a mean is the pair of its numerator and            *)
(* denominator.                                                            *)
(***************************************************************************)
EXTENDS Integers, Sequences, FiniteSets, TLC

\* ---------------------------------------------------------------- bounds
\* longest persona list handed to filterPersonas
MaxFilterPersonas == 2
\* longest candidate list handed to sampleFromCandidates
MaxCandidates == 5
\* longest reply list handed to aggregateSentiment
MaxReplies == 3
\* largest sample_size an ask request of the model asks for
MaxAskSampleSize == 7
\* most reply generator calls the requests of one run ask for together; an
\* ask request that would go beyond it is not admitted
MaxFanOutCalls == 7
MaxExtraReasons == 2
\* the personas of the store whose arrays the operations are watched on
MaxFramePersonas == 4
\* the last instant of the clock
MaxTime == 5
\* most checkRateLimit calls of one run of the limiter alone
MaxRateCalls == 5
\* the limit and the window length (in ms) the limiter alone is called with
RateLimitArg == 2
RateWindowArg == 2

\* ------------------------------------------------------- generic helpers
RECURSIVE SeqSum(_)
SeqSum(s) == IF s = <<>> THEN 0 ELSE Head(s) + SeqSum(Tail(s))

Range(s) == {s[i] : i \in DOMAIN s}

Min2(a, b) == IF a <= b THEN a ELSE b
Max2(a, b) == IF a >= b THEN a ELSE b

\* an optional value (TypeScript "x?: T"): <<>> is undefined, <<v>> is v
None == <<>>
Some(v) == <<v>>

\* ---------------------------------------------------------------- strings
UpperCaseLetters == <<"A","B","C","D","E","F","G","H","I","J","K","L","M",
                      "N","O","P","Q","R","S","T","U","V","W","X","Y","Z">>
LowerCaseLetters == <<"a","b","c","d","e","f","g","h","i","j","k","l","m",
                      "n","o","p","q","r","s","t","u","v","w","x","y","z">>

CharToLower(c) ==
  IF \E i \in DOMAIN UpperCaseLetters : UpperCaseLetters[i] = c
  THEN LowerCaseLetters[CHOOSE i \in DOMAIN UpperCaseLetters : UpperCaseLetters[i] = c]
  ELSE c

\* String.prototype.toLowerCase
toLowerCase(s) == [i \in DOMAIN s |-> CharToLower(s[i])]

IsWhitespace(c) == c \in {" ", "\t", "\n"}

\* String.prototype.trim
RECURSIVE trimStart(_)
trimStart(s) ==
  IF s # <<>> /\ IsWhitespace(Head(s)) THEN trimStart(Tail(s)) ELSE s

RECURSIVE trimEnd(_)
trimEnd(s) ==
  IF s # <<>> /\ IsWhitespace(s[Len(s)])
  THEN trimEnd(SubSeq(s, 1, Len(s) - 1))
  ELSE s

trim(s) == trimEnd(trimStart(s))

\* String.prototype.includes
includes(s, q) ==
  \E i \in 0..(Len(s) - Len(q)) : SubSeq(s, i + 1, i + Len(q)) = q

\* JavaScript truthiness of an optional string: undefined and "" are falsy
Truthy(opt) == opt # None /\ opt[1] # <<>>

\* ---------------------------------------------------------------- personas
sF == <<"F">>
sM == <<"M">>
sStu == <<"S","t","u">>
sEng == <<"E","n","g">>
sTea == <<"T","e","a">>
sStuPadded == <<" ","s","t","u">>
TAM == <<"T","A","M">>
BED == <<"B","E","D">>
YIS == <<"Y","I","S">>

Persona(u, a, s, o, p) ==
  [uuid |-> u, age |-> a, sex |-> s, occupation |-> o, planning_area |-> p]

\* the personas the store holds after loading (areas already normalised)
Population ==
  << Persona(1, 25, sF, sStu, TAM),
     Persona(2, 24, sM, sEng, BED),
     Persona(3, 34, sF, sTea, TAM),
     Persona(4, 30, sM, sStuPadded, BED),
     Persona(5, 45, sF, sEng, TAM),
     Persona(6, 60, sM, sEng, YIS),
     Persona(7, 19, sF, sTea, YIS) >>

\* the sequences over 1..n that are strictly increasing, of length <= k
RECURSIVE IncreasingSeqs(_, _)
IncreasingSeqs(n, k) ==
  IF n = 0 \/ k = 0 THEN {<<>>}
  ELSE IncreasingSeqs(n - 1, k)
       \cup {Append(s, n) : s \in IncreasingSeqs(n - 1, k - 1)}

\* the sequences of pairwise distinct elements of 1..n, of length <= k
DistinctSeqs(n, k) ==
  {s \in UNION {[1..m -> 1..n] : m \in 0..k} :
     \A i, j \in DOMAIN s : i # j => s[i] # s[j]}

PersonasAt(idx) == [i \in DOMAIN idx |-> Population[idx[i]]]

\* ---------------------------------------------------------- filterPersonas
\* the normalised list of an optional string array:
\* filters.xs?.map(toLowerCase . trim).filter(Boolean) ?? []
NormalizedList(optList) ==
  IF optList = None THEN <<>>
  ELSE SelectSeq([i \in DOMAIN optList[1] |-> trim(toLowerCase(optList[1][i]))],
                 LAMBDA x : x # <<>>)

NormalizedQuery(opt) ==
  IF opt = None THEN None ELSE Some(trim(toLowerCase(opt[1])))

\* PersonaMatches with the age bounds taken as exclusive
PersonaMatchesExclusiveAge(persona, filters) ==
  LET ageMin == Min2(filters.age_min, filters.age_max)
      ageMax == Max2(filters.age_min, filters.age_max)
      sexQuery == NormalizedQuery(filters.sex)
      occupationQuery == NormalizedQuery(filters.occupation_query)
      areaQuery == NormalizedQuery(filters.planning_area_query)
      occupationSet == Range(NormalizedList(filters.occupations))
      areaSet == Range(NormalizedList(filters.planning_areas))
  IN  IF persona.age <= ageMin \/ persona.age >= ageMax THEN FALSE
      ELSE IF Truthy(sexQuery) /\ toLowerCase(persona.sex) # sexQuery[1] THEN FALSE
      ELSE IF occupationSet # {}
              /\ trim(toLowerCase(persona.occupation)) \notin occupationSet THEN FALSE
      ELSE IF areaSet # {}
              /\ trim(toLowerCase(persona.planning_area)) \notin areaSet THEN FALSE
      ELSE IF Truthy(occupationQuery)
              /\ ~includes(toLowerCase(persona.occupation), occupationQuery[1]) THEN FALSE
      ELSE IF Truthy(areaQuery)
              /\ ~includes(toLowerCase(persona.planning_area), areaQuery[1]) THEN FALSE
      ELSE TRUE

\* the predicate of personas.filter(...)
PersonaMatches(persona, filters) ==
  LET ageMin == Min2(filters.age_min, filters.age_max)
      ageMax == Max2(filters.age_min, filters.age_max)
      sexQuery == NormalizedQuery(filters.sex)
      occupationQuery == NormalizedQuery(filters.occupation_query)
      areaQuery == NormalizedQuery(filters.planning_area_query)
      occupationSet == Range(NormalizedList(filters.occupations))
      areaSet == Range(NormalizedList(filters.planning_areas))
  IN  IF persona.age < ageMin \/ persona.age > ageMax THEN FALSE
      ELSE IF Truthy(sexQuery) /\ toLowerCase(persona.sex) # sexQuery[1] THEN FALSE
      ELSE IF occupationSet # {}
              /\ trim(toLowerCase(persona.occupation)) \notin occupationSet THEN FALSE
      ELSE IF areaSet # {}
              /\ trim(toLowerCase(persona.planning_area)) \notin areaSet THEN FALSE
      ELSE IF Truthy(occupationQuery)
              /\ ~includes(toLowerCase(persona.occupation), occupationQuery[1]) THEN FALSE
      ELSE IF Truthy(areaQuery)
              /\ ~includes(toLowerCase(persona.planning_area), areaQuery[1]) THEN FALSE
      ELSE TRUE

filterPersonas(personas, filters) ==
  SelectSeq(personas, LAMBDA persona : PersonaMatches(persona, filters))

\* ---------------------------------------------------------------- shuffle
\* shuffle(items) with the value of Math.floor(Math.random() * (i + 1)) of
\* each loop turn given by js: js[i] \in 0..i for the 0-based index i in
\* 1..Len(items)-1 (Fisher-Yates, from the last index down)
RECURSIVE shuffleFrom(_, _, _)
shuffleFrom(clone, i, js) ==
  IF i <= 0 THEN clone
  ELSE LET j == js[i]
           swapped == [clone EXCEPT ![i + 1] = clone[j + 1],
                                    ![j + 1] = clone[i + 1]]
       IN  shuffleFrom(swapped, i - 1, js)

shuffle(items, js) == shuffleFrom(items, Len(items) - 1, js)

\* every outcome of the random draws of one shuffle of n items
ShuffleDraws(n) ==
  IF n <= 1 THEN {<<>>}
  ELSE {js \in [1..(n - 1) -> 0..(n - 1)] : \A i \in 1..(n - 1) : js[i] <= i}

\* --------------------------------------------------- sampleFromCandidates
\* the keys of byArea, in the insertion order of the Map
RECURSIVE AreaKeys(_)
AreaKeys(candidates) ==
  IF candidates = <<>> THEN <<>>
  ELSE LET before == AreaKeys(SubSeq(candidates, 1, Len(candidates) - 1))
           area == candidates[Len(candidates)].planning_area
       IN  IF area \in Range(before) THEN before ELSE Append(before, area)

\* byArea.get(area) answering with every candidate, whatever the area
AreaCandidatesAnyArea(candidates, area) == candidates

\* byArea.get(area)
AreaCandidates(candidates, area) ==
  SelectSeq(candidates, LAMBDA persona : persona.planning_area = area)

\* picked.set(persona.uuid, persona) on a Map kept as the sequence of its
\* values in insertion order
MapSet(picked, persona) ==
  IF \E i \in DOMAIN picked : picked[i].uuid = persona.uuid
  THEN [i \in DOMAIN picked |->
          IF picked[i].uuid = persona.uuid THEN persona ELSE picked[i]]
  ELSE Append(picked, persona)

MapHas(picked, uuid) == \E i \in DOMAIN picked : picked[i].uuid = uuid

\* the first loop without its "picked.size >= sampleSize" break
RECURSIVE DiversityLoopNoBreak(_, _, _, _, _)
DiversityLoopNoBreak(candidates, sampleSize, areas, picks, picked) ==
  IF areas = <<>> THEN picked
  ELSE LET areaCandidates == AreaCandidates(candidates, Head(areas))
       IN  IF areaCandidates = <<>>
           THEN DiversityLoopNoBreak(candidates, sampleSize, Tail(areas), picks, picked)
           ELSE DiversityLoopNoBreak(candidates, sampleSize, Tail(areas), picks,
                                     MapSet(picked, areaCandidates[picks[Head(areas)] + 1]))

\* the first loop: one persona of each area, in the shuffled area order
RECURSIVE DiversityLoop(_, _, _, _, _)
DiversityLoop(candidates, sampleSize, areas, picks, picked) ==
  IF areas = <<>> THEN picked
  ELSE IF Len(picked) >= sampleSize THEN picked
  ELSE LET areaCandidates == AreaCandidates(candidates, Head(areas))
       IN  IF areaCandidates = <<>>
           THEN DiversityLoop(candidates, sampleSize, Tail(areas), picks, picked)
           ELSE DiversityLoop(candidates, sampleSize, Tail(areas), picks,
                              MapSet(picked, areaCandidates[picks[Head(areas)] + 1]))

\* the second loop: fill up from the shuffled candidates
RECURSIVE FillLoop(_, _, _)
FillLoop(sampleSize, remaining, picked) ==
  IF remaining = <<>> THEN picked
  ELSE IF Len(picked) >= sampleSize THEN picked
  ELSE IF ~MapHas(picked, Head(remaining).uuid)
       THEN FillLoop(sampleSize, Tail(remaining), MapSet(picked, Head(remaining)))
       ELSE FillLoop(sampleSize, Tail(remaining), picked)

DiversityPhase(candidates, sampleSize, rnd) ==
  DiversityLoop(candidates, sampleSize,
                shuffle(AreaKeys(candidates), rnd.areaJs), rnd.picks, <<>>)

FillPhase(candidates, sampleSize, rnd, picked) ==
  IF Len(picked) < sampleSize
  THEN FillLoop(sampleSize, shuffle(candidates, rnd.fillJs), picked)
  ELSE picked

\* the array handed to shuffle once it has returned, were the swaps made
\* on items itself
ItemsAfterShuffleInPlace(items, js) == shuffle(items, js)

\* the array handed to shuffle once it has returned: the swaps are made on
\* the clone [...items]
ItemsAfterShuffle(items, js) == items

\* the candidates array once sampleFromCandidates has returned: the groups
\* are lists of its own, and the array is handed to shuffle when the second
\* loop runs
CandidatesAfterSample(candidates, sampleSize, rnd) ==
  IF Len(candidates) > 0
     /\ Len(DiversityPhase(candidates, sampleSize, rnd)) < sampleSize
  THEN ItemsAfterShuffle(candidates, rnd.fillJs)
  ELSE candidates

\* rnd holds the outcomes of the calls of Math.random: areaJs for the shuffle
\* of the areas, picks[area] for the persona picked in an area, fillJs for
\* the shuffle of the candidates
sampleFromCandidates(candidates, sampleSize, rnd) ==
  IF Len(candidates) = 0 THEN <<>>
  ELSE FillPhase(candidates, sampleSize, rnd,
                 DiversityPhase(candidates, sampleSize, rnd))

\* every outcome of the random draws of one call
SampleDraws(candidates, sampleSize) ==
  LET keys == AreaKeys(candidates)
      pickSets == {picks \in [Range(keys) -> 0..(Len(candidates) - 1)] :
                     \A a \in Range(keys) :
                        picks[a] < Len(AreaCandidates(candidates, a))}
      early == {[areaJs |-> a, picks |-> p, fillJs |-> <<>>] :
                  a \in ShuffleDraws(Len(keys)), p \in pickSets}
  IN  UNION {
        IF Len(candidates) > 0
           /\ Len(DiversityPhase(candidates, sampleSize, e)) < sampleSize
        THEN {[e EXCEPT !.fillJs = f] : f \in ShuffleDraws(Len(candidates))}
        ELSE {e} : e \in early}

\* ------------------------------------------------------ aggregateSentiment
\* a quotient a / b of the code, kept exact: num / den thousandths
Quotient(a, b) == [num |-> a, den |-> b]

QuotientGreater(q, milli) == q.num > milli * q.den
QuotientLess(q, milli) == q.num < milli * q.den
QuotientEqual(q, r) == q.num * r.den = r.num * q.den

\* the thresholds of scoreToSentiment, 0.3 and -0.3, in thousandths
PositiveThreshold == 300
NegativeThreshold == -300

getSentimentScore(sentiment) ==
  IF sentiment = "positive" THEN 1000
  ELSE IF sentiment = "negative" THEN -1000
  ELSE 0

stanceToSentiment(stance) ==
  IF stance > 0 THEN "positive"
  ELSE IF stance < 0 THEN "negative"
  ELSE "neutral"

\* scoreToSentiment with the thresholds themselves counted in
scoreToSentimentInclusive(score) ==
  IF ~QuotientLess(score, PositiveThreshold) THEN "positive"
  ELSE IF ~QuotientGreater(score, NegativeThreshold) THEN "negative"
  ELSE "neutral"

scoreToSentiment(score) ==
  IF QuotientGreater(score, PositiveThreshold) THEN "positive"
  ELSE IF QuotientLess(score, NegativeThreshold) THEN "negative"
  ELSE "neutral"

\* ResponseScore always taking the coarse score of the sentiment label
ResponseScoreFromSentiment(response) == getSentimentScore(response.sentiment)

\* typeof response.score === "number" ? response.score : getSentimentScore(..)
ResponseScore(response) ==
  IF response.score # None THEN response.score[1]
  ELSE getSentimentScore(response.sentiment)

EmptyAggregation ==
  [summary |-> [positive |-> 0, neutral |-> 0, negative |-> 0],
   bucket |-> [a \in {} |-> 0],
   totalScore |-> 0]

\* BucketGet never finding the entry of the area
BucketGetFresh(bucket, area) == [totalScore |-> 0, count |-> 0]

\* bucket is the Map of the code, a function from the areas seen so far
BucketGet(bucket, area) ==
  IF area \in DOMAIN bucket THEN bucket[area] ELSE [totalScore |-> 0, count |-> 0]

\* BucketSet leaving the entry of an area that has one as it is
BucketSetOnce(bucket, area, item) ==
  [a \in DOMAIN bucket \cup {area} |->
     IF a \in DOMAIN bucket THEN bucket[a] ELSE item]

BucketSet(bucket, area, item) ==
  [a \in DOMAIN bucket \cup {area} |-> IF a = area THEN item ELSE bucket[a]]

\* one turn of "for (const response of responses)"
AggregateStep(acc, response) ==
  LET responseScore == ResponseScore(response)
      current == BucketGet(acc.bucket, response.planning_area)
  IN  [summary |-> [acc.summary EXCEPT ![response.sentiment] = @ + 1],
       bucket |-> BucketSet(acc.bucket, response.planning_area,
                            [totalScore |-> current.totalScore + responseScore,
                             count |-> current.count + 1]),
       totalScore |-> acc.totalScore + responseScore]

\* "for (const response of responses)"; the accumulator of a turn is a
\* value a, computed once
RECURSIVE AggregateLoop(_, _)
AggregateLoop(acc, responses) ==
  IF responses = <<>> THEN acc
  ELSE CHOOSE result \in {AggregateLoop(AggregateStep(a, Head(responses)),
                                        Tail(responses)) : a \in {acc}} : TRUE

AreaSentiment(item) ==
  LET score == Quotient(item.totalScore, item.count)
  IN  [count |-> item.count, score |-> score, sentiment |-> scoreToSentiment(score)]

MeanScore(totalScore, n) ==
  IF n > 0 THEN Quotient(totalScore, n) ELSE Quotient(0, 1)

aggregateSentiment(responses) ==
  LET acc == AggregateLoop(EmptyAggregation, responses)
  IN  [summary |-> [total |-> Len(responses),
                    positive |-> acc.summary.positive,
                    neutral |-> acc.summary.neutral,
                    negative |-> acc.summary.negative,
                    mean_score |-> MeanScore(acc.totalScore, Len(responses))],
       area_sentiments |-> [a \in DOMAIN acc.bucket |-> AreaSentiment(acc.bucket[a])]]

\* ------------------------------------------------ summarizeFailureReasons
\* .slice(0, 180) and .slice(0, 5)
ReasonMaxLength == 180
MaxReasonEntries == 5

\* Array.prototype.slice(0, n) and String.prototype.slice(0, n)
slice(s, n) == SubSeq(s, 1, Min2(n, Len(s)))

\* reason.replace(/\s+/g, " ")
RECURSIVE CollapseWhitespace(_)
CollapseWhitespace(s) ==
  IF s = <<>> THEN <<>>
  ELSE IF IsWhitespace(Head(s))
       THEN <<" ">> \o CollapseWhitespace(trimStart(s))
       ELSE <<Head(s)>> \o CollapseWhitespace(Tail(s))

NormalizeReason(reason) == slice(trim(CollapseWhitespace(reason)), ReasonMaxLength)

\* counts.set(normalized, (counts.get(normalized) ?? 0) + 1): a Map keeps its
\* keys in the order of their first insertion
CountSet(counts, normalized) ==
  IF \E i \in DOMAIN counts : counts[i].reason = normalized
  THEN [i \in DOMAIN counts |->
          IF counts[i].reason = normalized
          THEN [counts[i] EXCEPT !.count = @ + 1] ELSE counts[i]]
  ELSE Append(counts, [reason |-> normalized, count |-> 1])

RECURSIVE CountReasons(_)
CountReasons(reasons) ==
  IF reasons = <<>> THEN <<>>
  ELSE CountSet(CountReasons(SubSeq(reasons, 1, Len(reasons) - 1)),
                NormalizeReason(reasons[Len(reasons)]))

\* a comparator that leaves the entries in insertion order
InsertionOrder(a, b) == 0

\* (a, b) => b[1] - a[1]
ByCountDescending(a, b) == b.count - a.count

\* Array.prototype.sort is stable: an entry goes behind every entry the
\* comparator does not put it before
RECURSIVE SortEntries(_)
SortEntries(entries) ==
  IF entries = <<>> THEN <<>>
  ELSE LET n == Len(entries)
           sorted == SortEntries(SubSeq(entries, 1, n - 1))
           last == entries[n]
           ahead == {i \in DOMAIN sorted : ByCountDescending(sorted[i], last) <= 0}
           k == Cardinality(ahead)
       IN  SubSeq(sorted, 1, k) \o <<last>> \o SubSeq(sorted, k + 1, n - 1)

summarizeFailureReasons(reasons) ==
  slice(SortEntries(CountReasons(reasons)), MaxReasonEntries)

\* ------------------------------------------------------------------ state
VARIABLES
  call,      \* the call of a library function under way: its name and arguments
  returned   \* None until that call has returned, then Some(result)

VARIABLES
  requests,     \* the HTTP requests: route, position in the handler, locals
  workerLimit   \* the pLimit(6) of each route module: activeCount and queue

VARIABLES
  env,           \* process.env and the dataset files of the deployment
  windows,       \* rate-limit.ts: the Map from key to { count, resetAt }
  now,           \* Date.now()
  rateLog,       \* the checkRateLimit calls so far: key, time and verdict
  convex,        \* the cohorts table of the database and the mutations under way
  personaCache,  \* persona-store.ts: cache, None or Some(the store object)
  areaCache,     \* area-profiles.ts: cache, None or Some(the store object)
  fileReads,     \* how often each dataset file was read, how often each cache set
  storeCalls,    \* the calls of getPersonaStore and getAreaProfileStore, by caller
  gen            \* one generatePersonaReply call: candidates, attempts, outcome

fnVars == <<call, returned>>
sysVars == <<requests, workerLimit>>
rateVars == <<windows, now, rateLog>>
libVars == <<env, rateVars, convex, personaCache, areaCache, fileReads, storeCalls, gen>>
storeVars == <<personaCache, areaCache, fileReads, storeCalls>>
vars == <<call, returned, requests, workerLimit,
          env, windows, now, rateLog, convex,
          personaCache, areaCache, fileReads, storeCalls, gen>>

NoCall == [fn |-> "none"]

\* new Map<string, WindowEntry>()
NoWindows == [key \in {} |-> [count |-> 0, resetAt |-> 0]]

\* a database without cohorts and without a mutation under way
EmptyConvex == [cohorts |-> <<>>, pending |-> <<>>]

\* ------------------------------------------------------ the route modules
AskIds == {"ask1", "ask2"}
ChatIds == {"chat1"}
RequestIds == AskIds \cup ChatIds

\* the requests of the cohort-create route
CreateIds == {"create1", "create2"}

Routes == {"ask", "chat"}
RouteOf(r) == IF r \in AskIds THEN "ask" ELSE "chat"

\* the ask requests are named in the order of their arrival
ArrivesBefore(a, b) == a = "ask1" /\ b = "ask2"

\* const workerLimit = pLimit(6), once in the ask route module and once in
\* the chat route module
AskWorkerLimit == 6
ChatWorkerLimit == 6
Concurrency(route) == IF route = "ask" THEN AskWorkerLimit ELSE ChatWorkerLimit

\* responses.length < 5 in the ask route, < 4 in the chat route
AskMinResponses == 5
ChatMinResponses == 4

\* sample_size: z.coerce.number().int().min(5)
MinSampleSize == 5

Idle == [pc |-> "idle"]

RECURSIVE SumOf(_, _)
SumOf(f, keys) ==
  IF keys = {} THEN 0
  ELSE LET k == CHOOSE x \in keys : TRUE
       IN  f[k] + SumOf(f, keys \ {k})

\* the names of the API keys in process.env
EnvKeys == {"GEMINI_API_KEY", "ANTHROPIC_API_KEY", "OPENAI_API_KEY"}

\* a deployment with every API key set, both dataset files in place and
\* debugging off
NormalEnv ==
  [keys |-> EnvKeys, debug |-> FALSE, personaFile |-> TRUE, areaFile |-> TRUE]

GenIdle == [pc |-> "idle"]

\* the callers of the store getters: the ask requests (await Promise.all of
\* both getters) and a request for the filter options
CallerIds == AskIds \cup {"options1"}

NotCalled == [status |-> "none"]

\* the module state of the libraries when the modules have just been loaded
InitIdleLib ==
  /\ windows = NoWindows
  /\ now = 0
  /\ rateLog = <<>>
  /\ convex = EmptyConvex
  /\ personaCache = None
  /\ areaCache = None
  /\ fileReads = [personaFile |-> 0, areaFile |-> 0, personaCache |-> 0, areaCache |-> 0]
  /\ storeCalls = [c \in CallerIds |-> [persona |-> NotCalled, area |-> NotCalled]]
  /\ gen = GenIdle

InitIdleRoutes ==
  /\ requests = [r \in RequestIds \cup CreateIds |-> Idle]
  /\ workerLimit = [route \in Routes |-> [activeCount |-> 0, queue |-> <<>>]]

InitIdleSystem ==
  /\ InitIdleRoutes
  /\ InitIdleLib
  /\ env = NormalEnv

\* ------------------------------------------------------------ the stores
CharToUpper(c) ==
  IF \E i \in DOMAIN LowerCaseLetters : LowerCaseLetters[i] = c
  THEN UpperCaseLetters[CHOOSE i \in DOMAIN LowerCaseLetters : LowerCaseLetters[i] = c]
  ELSE c

toUpperCase(s) == [i \in DOMAIN s |-> CharToUpper(s[i])]

\* value.trim().toUpperCase().replace(/\s+/g, " ")
normalizePlanningArea(value) == CollapseWhitespace(toUpperCase(trim(value)))

sTamRaw == <<" ", "T", "a", "m">>
sYisRaw == <<"y", "i", "s", " ">>

\* personas.compact.v1.json: the personas of Population as the file has them
PersonaDataset ==
  [i \in DOMAIN Population |->
     IF i = 3 THEN [Population[i] EXCEPT !.planning_area = sTamRaw]
     ELSE IF i = 6 THEN [Population[i] EXCEPT !.planning_area = sYisRaw]
     ELSE Population[i]]

\* buildByArea of persona-store.ts: the personas of each area, keyed by the
\* normalized area
PersonasByArea(personas) ==
  [a \in {normalizePlanningArea(personas[i].planning_area) : i \in DOMAIN personas} |->
     SelectSeq(personas, LAMBDA p : normalizePlanningArea(p.planning_area) = a)]

\* the store object getPersonaStore builds from the file; id tells the
\* objects of different loads apart
PersonaStoreOf(id, dataset) ==
  LET personas == [i \in DOMAIN dataset |->
                     [dataset[i] EXCEPT
                        !.planning_area = normalizePlanningArea(@)]]
  IN  [id |-> id, personas |-> personas, byArea |-> PersonasByArea(personas)]

PersonaStoreObject(id) == PersonaStoreOf(id, PersonaDataset)

sTampinesSummary == "Tampines is a mature town in the east."

\* area-profiles.json
AreaProfileDataset == << [planning_area |-> sTamRaw, summary |-> sTampinesSummary] >>

\* buildByArea of area-profiles.ts: byArea.set(area, profile), the last
\* profile of an area staying
ProfilesByArea(profiles) ==
  [a \in {normalizePlanningArea(profiles[i].planning_area) : i \in DOMAIN profiles} |->
     LET last == CHOOSE i \in DOMAIN profiles :
                   /\ normalizePlanningArea(profiles[i].planning_area) = a
                   /\ \A j \in DOMAIN profiles :
                        normalizePlanningArea(profiles[j].planning_area) = a => j <= i
     IN  profiles[last]]

AreaStoreObject(id, profiles) ==
  [id |-> id, profiles |-> profiles, byArea |-> ProfilesByArea(profiles)]

\* areaStore.byArea.get(persona.planning_area)?.summary
AreaSummary(areaStore, persona) ==
  IF persona.planning_area \in DOMAIN areaStore.byArea
  THEN Some(areaStore.byArea[persona.planning_area].summary)
  ELSE None

\* the store objects that calls completed so far have returned
ReturnedStores(which) ==
  {storeCalls[c][which].store.id :
     c \in {d \in CallerIds : storeCalls[d][which].status = "fulfilled"}}

\* getPersonaStore up to its first await: the cache if it is set, else the
\* file read is started
PersonaCallStarted(calls, c) ==
  [calls EXCEPT ![c].persona =
     IF personaCache # None
     THEN [status |-> "fulfilled", store |-> personaCache[1], read |-> FALSE,
           after |-> ReturnedStores("persona")]
     ELSE [status |-> "reading", after |-> ReturnedStores("persona")]]

\* getAreaProfileStore up to its first await
AreaCallStarted(calls, c) ==
  [calls EXCEPT ![c].area =
     IF areaCache # None
     THEN [status |-> "fulfilled", store |-> areaCache[1], read |-> FALSE,
           after |-> ReturnedStores("area")]
     ELSE [status |-> "reading", after |-> ReturnedStores("area")]]

ReadsStarted(personaCalled, areaCalled) ==
  [fileReads EXCEPT
     !.personaFile = IF personaCalled /\ personaCache = None THEN @ + 1 ELSE @,
     !.areaFile = IF areaCalled /\ areaCache = None THEN @ + 1 ELSE @]

\* a request for the filter options calls getPersonaStore
CallGetPersonaStore(c) ==
  /\ c \in CallerIds \ AskIds
  /\ storeCalls[c].persona = NotCalled
  /\ storeCalls' = PersonaCallStarted(storeCalls, c)
  /\ fileReads' = ReadsStarted(TRUE, FALSE)
  /\ UNCHANGED <<fnVars, sysVars, env, rateVars, convex, personaCache, areaCache, gen>>

\* await Promise.all([getPersonaStore(), getAreaProfileStore()]) of a caller,
\* up to the await
CallBothStores(c) ==
  /\ c \in AskIds
  /\ storeCalls[c].persona = NotCalled
  /\ storeCalls' = AreaCallStarted(PersonaCallStarted(storeCalls, c), c)
  /\ fileReads' = ReadsStarted(TRUE, TRUE)
  /\ UNCHANGED <<fnVars, sysVars, env, rateVars, convex, personaCache, areaCache, gen>>

sNoSuchFile == "ENOENT: no such file or directory"

\* getPersonaStore after fs.readFile: the read raises when the file is
\* absent; else the file is parsed and the store built
PersonaReadOutcome(present, id) ==
  IF present
  THEN [status |-> "fulfilled", store |-> PersonaStoreObject(id), read |-> TRUE]
  ELSE [status |-> "rejected", error |-> sNoSuchFile]

\* getAreaProfileStore that lets the read error out
AreaReadOutcomeRaising(present, id) ==
  IF present
  THEN [status |-> "fulfilled", store |-> AreaStoreObject(id, AreaProfileDataset),
        read |-> TRUE]
  ELSE [status |-> "rejected", error |-> sNoSuchFile]

\* getAreaProfileStore after fs.readFile: the empty store when the read
\* raises
AreaReadOutcome(present, id) ==
  [status |-> "fulfilled",
   store |-> AreaStoreObject(id, IF present THEN AreaProfileDataset ELSE <<>>),
   read |-> TRUE]

\* the file read of a getPersonaStore call completes; cache = {...} when the
\* store was built
PersonaFileRead(c) ==
  /\ storeCalls[c].persona.status = "reading"
  /\ LET outcome == PersonaReadOutcome(env.personaFile, fileReads.personaCache + 1)
     IN  /\ storeCalls' = [storeCalls EXCEPT ![c].persona = outcome @@ @]
         /\ IF outcome.status = "fulfilled"
            THEN /\ personaCache' = Some(outcome.store)
                 /\ fileReads' = [fileReads EXCEPT !.personaCache = @ + 1]
            ELSE UNCHANGED <<personaCache, fileReads>>
  /\ UNCHANGED <<fnVars, sysVars, env, rateVars, convex, areaCache, gen>>

\* the file read of a getAreaProfileStore call completes
AreaFileRead(c) ==
  /\ storeCalls[c].area.status = "reading"
  /\ LET outcome == AreaReadOutcome(env.areaFile, fileReads.areaCache + 1)
     IN  /\ storeCalls' = [storeCalls EXCEPT ![c].area = outcome @@ @]
         /\ IF outcome.status = "fulfilled"
            THEN /\ areaCache' = Some(outcome.store)
                 /\ fileReads' = [fileReads EXCEPT !.areaCache = @ + 1]
            ELSE UNCHANGED <<areaCache, fileReads>>
  /\ UNCHANGED <<fnVars, sysVars, env, rateVars, convex, personaCache, gen>>

\* ------------------------------------------------------- the model catalog
ModelOption(id, provider, requiredEnv, fallback) ==
  [id |-> id, provider |-> provider, requiredEnv |-> requiredEnv, fallback |-> fallback]

MODEL_CATALOG ==
  << ModelOption("gpt-5-nano", "openai", "OPENAI_API_KEY", "gpt-5-mini"),
     ModelOption("gpt-5-mini", "openai", "OPENAI_API_KEY", "gpt-5-mini"),
     ModelOption("gpt-5.2", "openai", "OPENAI_API_KEY", "gpt-5-mini"),
     ModelOption("claude-sonnet-4-6", "anthropic", "ANTHROPIC_API_KEY", "claude-sonnet-4-5"),
     ModelOption("claude-sonnet-4-5", "anthropic", "ANTHROPIC_API_KEY", "claude-sonnet-4-5"),
     ModelOption("gemini-2.5-flash-lite", "google", "GEMINI_API_KEY", "gemini-2.5-flash"),
     ModelOption("gemini-2.5-flash", "google", "GEMINI_API_KEY", "gemini-2.5-flash") >>

SUPPORTED_MODEL_IDS == {MODEL_CATALOG[i].id : i \in DOMAIN MODEL_CATALOG}

FALLBACK_DEFAULT_MODEL == "gpt-5-nano"

\* MODEL_CATALOG.find((item) => item.id === modelId)
getModelOption(modelId) ==
  MODEL_CATALOG[CHOOSE i \in DOMAIN MODEL_CATALOG : MODEL_CATALOG[i].id = modelId]

\* MODEL_CATALOG.filter((option) => Boolean(env[option.requiredEnv]))
getAvailableModelOptions(keys) ==
  SelectSeq(MODEL_CATALOG, LAMBDA option : option.requiredEnv \in keys)

getDefaultModelId(keys) ==
  IF getAvailableModelOptions(keys) # <<>>
  THEN getAvailableModelOptions(keys)[1].id
  ELSE FALLBACK_DEFAULT_MODEL

\* ------------------------------------------------------- the rate limiter
\* Math.ceil(a / b) for a >= 0
CeilDiv(a, b) == (a + b - 1) \div b

\* a window that also ends at the instant resetAt
WindowExpiredAtResetAt(entry, t) == t >= entry.resetAt

\* now > existing.resetAt
WindowExpired(entry, t) == t > entry.resetAt

\* checkRateLimit(key, limit, windowMs) at time t on the Map map: the Map
\* after the call and the returned verdict
checkRateLimit(map, key, limit, windowMs, t) ==
  IF key \notin DOMAIN map \/ WindowExpired(map[key], t)
  THEN [windows |-> [k \in DOMAIN map \cup {key} |->
                       IF k = key THEN [count |-> 1, resetAt |-> t + windowMs]
                       ELSE map[k]],
        result |-> [allowed |-> TRUE,
                    retryAfterSeconds |-> CeilDiv(windowMs, 1000),
                    remaining |-> limit - 1]]
  ELSE IF map[key].count >= limit
  THEN [windows |-> map,
        result |-> [allowed |-> FALSE,
                    retryAfterSeconds |-> Max2(1, CeilDiv(map[key].resetAt - t, 1000)),
                    remaining |-> 0]]
  ELSE [windows |-> [map EXCEPT ![key].count = @ + 1],
        result |-> [allowed |-> TRUE,
                    retryAfterSeconds |-> Max2(1, CeilDiv(map[key].resetAt - t, 1000)),
                    remaining |-> Max2(0, limit - (map[key].count + 1))]]

\* the entry of a call in rateLog
RateLogEntry(key, t, result) == [key |-> key, at |-> t, allowed |-> result.allowed]

\* time passes
Tick ==
  /\ now < MaxTime
  /\ now' = now + 1
  /\ UNCHANGED <<fnVars, sysVars, env, windows, rateLog, convex, storeVars, gen>>

\* ------------------------------------------------------------ ask: intake
sZz == <<"z","z">>
sYisPadded == <<" ","Y","i","s">>

AskBody(k, areaQuery, areas) ==
  [sample_size |-> k, age_min |-> 120, age_max |-> 18, sex |-> None,
   occupation_query |-> None, planning_area_query |-> areaQuery,
   occupations |-> None, planning_areas |-> areas]

\* the parsed body of an ask request: everyone (with the ages swapped) for
\* the smallest and the largest sample size, the personas of one area (named
\* twice), or nobody
AskBodyChoices ==
  { AskBody(MinSampleSize, None, None),
    AskBody(MaxAskSampleSize, None, None),
    AskBody(MinSampleSize, None, Some(<<sYisPadded, YIS>>)),
    AskBody(MinSampleSize, Some(sZz), None) }

\* parsedBody.x?.trim() || undefined
TrimOrUndefined(opt) ==
  IF opt # None /\ trim(opt[1]) # <<>> THEN Some(trim(opt[1])) ELSE None

\* [...new Set(items)]
RECURSIVE Dedupe(_)
Dedupe(items) ==
  IF items = <<>> THEN <<>>
  ELSE LET before == Dedupe(SubSeq(items, 1, Len(items) - 1))
           last == items[Len(items)]
       IN  IF last \in Range(before) THEN before ELSE Append(before, last)

\* list && list.length > 0 ? [...new Set(list.map(trim).filter(Boolean))] : undefined
TrimmedSetOrUndefined(optList) ==
  IF optList # None /\ Len(optList[1]) > 0
  THEN Some(Dedupe(SelectSeq([i \in DOMAIN optList[1] |-> trim(optList[1][i])],
                             LAMBDA x : x # <<>>)))
  ELSE None

\* const filters = {...} of the ask route
AskFilters(parsedBody) ==
  [age_min |-> Min2(parsedBody.age_min, parsedBody.age_max),
   age_max |-> Max2(parsedBody.age_min, parsedBody.age_max),
   sample_size |-> parsedBody.sample_size,
   sex |-> TrimOrUndefined(parsedBody.sex),
   occupation_query |-> TrimOrUndefined(parsedBody.occupation_query),
   planning_area_query |-> TrimOrUndefined(parsedBody.planning_area_query),
   occupations |-> TrimmedSetOrUndefined(parsedBody.occupations),
   planning_areas |-> TrimmedSetOrUndefined(parsedBody.planning_areas)]

\* the random source of one request: every Math.random() of the request is
\* the lowest value, 0, or every one is the highest below 1
RandomChoices == {"lowest", "highest"}

\* Math.floor(Math.random() * n)
RandomIndex(random, n) == IF random = "lowest" THEN 0 ELSE n - 1

ConstantDraws(candidates, random) ==
  LET keys == AreaKeys(candidates)
  IN  [areaJs |-> [i \in 1..(Len(keys) - 1) |-> RandomIndex(random, i + 1)],
       picks |-> [a \in Range(keys) |->
                    RandomIndex(random, Len(AreaCandidates(candidates, a)))],
       fillJs |-> [i \in 1..(Len(candidates) - 1) |-> RandomIndex(random, i + 1)]]

\* Math.random is one generator for the whole process: the requests of a run
\* draw from the same stream
RandomChoicesFor(r) ==
  {random \in RandomChoices :
     \A other \in AskIds \ {r} :
       "random" \in DOMAIN requests[other] => requests[other].random = random}

\* the reply generator calls asked for so far, over all requests
FanOutCallsAsked ==
  SumOf([r \in RequestIds |->
           IF "sampled" \in DOMAIN requests[r] THEN Len(requests[r].sampled) ELSE 0],
        RequestIds)

\* sampled.map((persona) => workerLimit(...)): one pending promise for each
\* persona, its task queued in the limiter in cohort order
Enqueue(limit, r, n) ==
  [limit EXCEPT !.queue = @ \o [i \in 1..n |-> <<r, i>>]]

Pending == [status |-> "pending"]
Running == [status |-> "running"]

StartFanOut(r, locals, sampled) ==
  /\ requests' = [requests EXCEPT ![r] =
       locals @@ [pc |-> "fanout",
                  sampled |-> sampled,
                  replies |-> [i \in DOMAIN sampled |-> Pending],
                  outOfOrder |-> FALSE,
                  calls |-> [i \in DOMAIN sampled |-> 0]] @@ requests[r]]
  /\ workerLimit' = [workerLimit EXCEPT ![RouteOf(r)] = Enqueue(@, r, Len(sampled))]

\* return NextResponse.json(...), the request keeping locals for the record
RespondWith(r, locals, response) ==
  requests' = [requests EXCEPT ![r] =
                 [pc |-> "responded", response |-> response] @@ locals @@ @]

\* return NextResponse.json(...)
Respond(r, response) ==
  requests' = [requests EXCEPT ![r] =
                 [pc |-> "responded", response |-> response] @@ @]

\* the stores of a process that has loaded both datasets
WarmPersonaStore == PersonaStoreObject(1)
WarmAreaStore == AreaStoreObject(1, AreaProfileDataset)

\* a route that never takes the no-match exit
NoMatchNever(sampled) == FALSE

\* sampled.length === 0
NoMatch(sampled) == Len(sampled) = 0

\* POST /api/ask from "const ageMin" up to "await Promise.allSettled": the
\* filters, the cohort, the no-match exit and the fan-out
AskSampleAndFanOut(r, store, areaStore, parsedBody, random) ==
  LET filters == AskFilters(parsedBody)
      candidates == filterPersonas(store.personas, filters)
      sampleSize == Min2(filters.sample_size, Len(candidates))
      sampled == sampleFromCandidates(candidates, sampleSize,
                                      ConstantDraws(candidates, random))
  IN  /\ FanOutCallsAsked + Len(sampled) <= MaxFanOutCalls
      /\ IF NoMatch(sampled)
         THEN /\ Respond(r, [status |-> 404, error |-> "No personas match"])
              /\ UNCHANGED workerLimit
         ELSE StartFanOut(r, [filters |-> filters, random |-> random,
                              total_matches |-> Len(candidates),
                              areaStore |-> areaStore], sampled)

\* POST /api/ask up to "await Promise.allSettled", for a request whose body
\* parses, that is within the rate limit and whose model is available, in a
\* process that has loaded its stores
AskPostOf(r, bodies) ==
  /\ r \in AskIds
  /\ requests[r].pc = "idle"
  /\ \A earlier \in AskIds : ArrivesBefore(earlier, r) => requests[earlier].pc # "idle"
  /\ \E parsedBody \in bodies, random \in RandomChoicesFor(r) :
       AskSampleAndFanOut(r, WarmPersonaStore, WarmAreaStore, parsedBody, random)
  /\ UNCHANGED <<fnVars, libVars>>

AskPost(r) == AskPostOf(r, AskBodyChoices)

\* checkRateLimit(`ask:${ip}`, 20, 10 * 60 * 1000)
AskRateLimit == 20
AskRateWindowMs == 600000
AskClientKey == "ask:ip"

\* the request bodies of the intake: one that AskRequestSchema rejects, the
\* personas of one area with and without a model named, and nobody
AskRawBodyChoices ==
  { [valid |-> FALSE],
    [valid |-> TRUE, model |-> None,
     parsed |-> AskBody(MinSampleSize, None, Some(<<sYisPadded, YIS>>))],
    [valid |-> TRUE, model |-> Some("gemini-2.5-flash"),
     parsed |-> AskBody(MinSampleSize, None, Some(<<sYisPadded, YIS>>))],
    [valid |-> TRUE, model |-> None,
     parsed |-> AskBody(MinSampleSize, Some(sZz), None)] }

\* the catch block of POST /api/ask: status 400 with the message of the
\* error and the request id, whatever was thrown
AskCatch(r, message) == [status |-> 400, error |-> message, request_id |-> r]

\* POST /api/ask from its start to "await Promise.all([getPersonaStore(),
\* getAreaProfileStore()])": the body is parsed, the rate limit consulted and
\* both getters called
AskReceive(r) ==
  /\ r \in AskIds
  /\ requests[r].pc = "idle"
  /\ \A earlier \in AskIds : ArrivesBefore(earlier, r) => requests[earlier].pc # "idle"
  /\ \E raw \in AskRawBodyChoices :
       LET rate == checkRateLimit(windows, AskClientKey, AskRateLimit,
                                  AskRateWindowMs, now)
       IN  IF ~raw.valid
           THEN /\ RespondWith(r, [thrown |-> "ZodError"], AskCatch(r, "ZodError"))
                /\ UNCHANGED <<windows, rateLog, storeCalls, fileReads>>
           ELSE /\ windows' = rate.windows
                /\ rateLog' = Append(rateLog, RateLogEntry(AskClientKey, now, rate.result))
                /\ IF ~rate.result.allowed
                   THEN /\ Respond(r, [status |-> 429, error |-> "Too many requests."])
                        /\ UNCHANGED <<storeCalls, fileReads>>
                   ELSE /\ requests' = [requests EXCEPT ![r] =
                             [pc |-> "loading", parsedBody |-> raw.parsed,
                              model |-> raw.model]]
                        /\ storeCalls' = AreaCallStarted(PersonaCallStarted(storeCalls, r), r)
                        /\ fileReads' = ReadsStarted(TRUE, TRUE)
  /\ UNCHANGED <<fnVars, workerLimit, env, now, convex, personaCache, areaCache, gen>>

\* POST /api/ask resumed from Promise.all: a rejected getter throws into the
\* catch block; else the model is settled and the cohort sampled
AskStoresReady(r) ==
  /\ r \in AskIds
  /\ requests[r].pc = "loading"
  /\ LET persona == storeCalls[r].persona
         area == storeCalls[r].area
     IN  \/ /\ persona.status = "rejected"
            /\ Respond(r, AskCatch(r, persona.error))
            /\ UNCHANGED workerLimit
         \/ /\ persona.status # "rejected"
            /\ area.status = "rejected"
            /\ Respond(r, AskCatch(r, area.error))
            /\ UNCHANGED workerLimit
         \/ /\ persona.status = "fulfilled"
            /\ area.status = "fulfilled"
            /\ LET availableModels == getAvailableModelOptions(env.keys)
                   model == IF requests[r].model # None THEN requests[r].model[1]
                            ELSE getDefaultModelId(env.keys)
               IN  IF Len(availableModels) = 0
                   THEN /\ Respond(r, [status |-> 500,
                                       error |-> "No model provider is configured."])
                        /\ UNCHANGED workerLimit
                   ELSE IF ~\E i \in DOMAIN availableModels : availableModels[i].id = model
                   THEN /\ Respond(r, [status |-> 400,
                                       error |-> "Model is not available on this server."])
                        /\ UNCHANGED workerLimit
                   ELSE \E random \in RandomChoicesFor(r) :
                          AskSampleAndFanOut(r, persona.store, area.store,
                                             requests[r].parsedBody, random)
  /\ UNCHANGED <<fnVars, libVars>>

\* ----------------------------------------------------------- the limiter
\* LimiterHasSlot letting one task more than the limit run
LimiterHasSlotOffByOne(route, limit) == limit.activeCount <= Concurrency(route)

\* p-limit starts a queued task only while activeCount < concurrency
LimiterHasSlot(route, limit) == limit.activeCount < Concurrency(route)

\* the limiter takes the task at the head of its queue and runs it: the task
\* calls generatePersonaReply for its persona
LimiterRun(route) ==
  /\ workerLimit[route].queue # <<>>
  /\ LimiterHasSlot(route, workerLimit[route])
  /\ LET r == Head(workerLimit[route].queue)[1]
         i == Head(workerLimit[route].queue)[2]
     IN  requests' = [requests EXCEPT ![r].replies[i] = Running,
                                      ![r].calls[i] = @ + 1]
  /\ workerLimit' = [workerLimit EXCEPT ![route].activeCount = @ + 1,
                                        ![route].queue = Tail(@)]
  /\ UNCHANGED <<fnVars, libVars>>

\* ------------------------------------------------------ the reply generator
\* confidence 1 in the unit of the model, a ten-thousandth
ConfidenceOne == 10000

\* result.object of a provider attempt that passed PersonaReplySchema;
\* 0.3333 and 0.9999 have more than three decimals
ReplyObjectChoices ==
  { [stance |-> 2, confidence |-> 10000], [stance |-> -1, confidence |-> 3333],
    [stance |-> 1, confidence |-> 2000], [stance |-> 0, confidence |-> 9999],
    [stance |-> -2, confidence |-> 0], [stance |-> 2, confidence |-> 9999] }

\* result.object for the prompt built from the persona
ProviderObjectChoices(persona) ==
  IF persona.uuid % 2 = 1 THEN {[stance |-> 2, confidence |-> 10000]}
  ELSE {[stance |-> -1, confidence |-> 3333]}

\* the message of the error generatePersonaReply throws, and the messages a
\* provider's errors can put into it
sProviderError == <<"E", "1">>
ProviderErrorChoices == {sProviderError, <<"E", " ", " ", "2", " ">>}

Abs(n) == IF n < 0 THEN -n ELSE n

\* Number((num / den).toFixed(3)), in thousandths: the nearest multiple of
\* 0.001, the one of larger magnitude when two are as near
toFixed3(num, den) ==
  LET n == (2000 * Abs(num) + den) \div (2 * den)
  IN  IF num < 0 THEN -n ELSE n

\* GeneratedReply taking the sentiment from the score and its thresholds
GeneratedReplySentimentFromScore(object) ==
  LET stance == object.stance
      confidence == Max2(0, Min2(ConfidenceOne, object.confidence))
      score == toFixed3(stance * confidence, ConfidenceOne)
  IN  [stance |-> stance, confidence |-> confidence, score |-> score,
       sentiment |-> scoreToSentiment(Quotient(score, 1))]

\* what generatePersonaReply returns for result.object
GeneratedReply(object) ==
  LET stance == object.stance
      confidence == Max2(0, Min2(ConfidenceOne, object.confidence))
      score == toFixed3(stance * confidence, ConfidenceOne)
  IN  [stance |-> stance, confidence |-> confidence, score |-> score,
       sentiment |-> stanceToSentiment(stance)]

\* --------------------------------------------------- generatePersonaReply
\* for (let attempt = 0; attempt < 3; attempt += 1)
MaxAttemptsPerCandidate == 3

\* the abort timers of an attempt, in milliseconds
AnthropicTimeoutMs == 22000
DefaultTimeoutMs == 10000
TimeoutMs(provider) ==
  IF provider = "anthropic" THEN AnthropicTimeoutMs ELSE DefaultTimeoutMs

\* candidates that also keep a fallback equal to the selected model
CandidatesWithDuplicate(model) ==
  <<getModelOption(model), getModelOption(getModelOption(model).fallback)>>

\* [selectedModel, fallbackModel] without a second entry of the same id
Candidates(model) ==
  LET selectedModel == getModelOption(model)
      fallbackModel == getModelOption(selectedModel.fallback)
  IN  IF fallbackModel.id = selectedModel.id THEN <<selectedModel>>
      ELSE <<selectedModel, fallbackModel>>

\* google?.(id), anthropic?.(id), openai?.(id): undefined without the API key
HasModelHandle(candidate, keys) == candidate.requiredEnv \in keys

\* the call as it enters the loop over the candidates
GenCalled(model, keys) ==
  [pc |-> "loop", model |-> model, keys |-> keys,
   candidates |-> Candidates(model), c |-> 1, attempt |-> 0,
   attemptFailures |-> <<>>, attempts |-> <<>>]

GenCurrent == gen.candidates[gen.c]

\* how an attempt can fail: the provider or the schema raises, or the abort
\* timer fires first
AttemptFailureChoices == {"error", "aborted"}

\* a candidate without a model handle is passed over
GenSkipCandidate ==
  /\ gen.pc = "loop"
  /\ gen.c <= Len(gen.candidates)
  /\ ~HasModelHandle(GenCurrent, gen.keys)
  /\ gen' = [gen EXCEPT !.c = @ + 1, !.attempt = 0,
                        !.attemptFailures =
                          Append(@, [candidate |-> GenCurrent.id, kind |-> "missing key"])]
  /\ UNCHANGED <<fnVars, sysVars, env, rateVars, convex, storeVars>>

\* generateObject resolves: the call returns the reply at once
GenAttemptSucceeds ==
  /\ gen.pc = "loop"
  /\ gen.c <= Len(gen.candidates)
  /\ HasModelHandle(GenCurrent, gen.keys)
  /\ \E object \in ReplyObjectChoices :
       gen' = [pc |-> "returned", object |-> object, result |-> GeneratedReply(object),
               attempts |-> Append(gen.attempts,
                                   [candidate |-> GenCurrent.id, outcome |-> "fulfilled",
                                    timeoutMs |-> TimeoutMs(GenCurrent.provider)])]
              @@ gen
  /\ UNCHANGED <<fnVars, sysVars, env, rateVars, convex, storeVars>>

\* generateObject rejects, by itself or aborted by the timer: the failure is
\* noted, and the next attempt or the next candidate follows
GenAttemptFails ==
  /\ gen.pc = "loop"
  /\ gen.c <= Len(gen.candidates)
  /\ HasModelHandle(GenCurrent, gen.keys)
  /\ \E kind \in AttemptFailureChoices :
       gen' = [gen EXCEPT
                 !.attemptFailures = Append(@, [candidate |-> GenCurrent.id, kind |-> kind]),
                 !.attempts = Append(@, [candidate |-> GenCurrent.id, outcome |-> kind,
                                         timeoutMs |-> TimeoutMs(GenCurrent.provider)]),
                 !.attempt = IF gen.attempt + 1 < MaxAttemptsPerCandidate
                             THEN gen.attempt + 1 ELSE 0,
                 !.c = IF gen.attempt + 1 < MaxAttemptsPerCandidate THEN @ ELSE @ + 1]
  /\ UNCHANGED <<fnVars, sysVars, env, rateVars, convex, storeVars>>

\* after the loop: throw new Error(`Model generation failed after ... attempts`)
GenThrow ==
  /\ gen.pc = "loop"
  /\ gen.c > Len(gen.candidates)
  /\ gen' = [pc |-> "thrown",
             error |-> IF Len(gen.attemptFailures) > 0
                       THEN [message |-> "Model generation failed after attempts.",
                             count |-> Len(gen.attemptFailures)]
                       ELSE [message |-> "Model request failed.", count |-> 0]]
            @@ gen
  /\ UNCHANGED <<fnVars, sysVars, env, rateVars, convex, storeVars>>

\* the record the task of the ask and chat routes returns
TaskValue(persona, reply, areaSummary) ==
  [uuid |-> persona.uuid,
   planning_area |-> persona.planning_area,
   profile |-> [age |-> persona.age, sex |-> persona.sex,
                occupation |-> persona.occupation],
   area_context |-> IF areaSummary # None THEN areaSummary[1] ELSE "",
   sentiment |-> reply.sentiment,
   stance |-> reply.stance,
   confidence |-> reply.confidence,
   score |-> Some(reply.score)]

\* a limiter that keeps the slot of a task that failed
ReleaseOnSuccessOnly(route, status) ==
  IF status = "fulfilled"
  THEN workerLimit' = [workerLimit EXCEPT ![route].activeCount = @ - 1]
  ELSE UNCHANGED workerLimit

\* the limiter's next(): activeCount-- once the task has settled, whether
\* its promise was fulfilled or rejected
Release(route, status) ==
  workerLimit' = [workerLimit EXCEPT ![route].activeCount = @ - 1]

\* a join that collects the outcomes in the order in which the calls finish
SettledSlotCompletionOrder(replies, i) ==
  CHOOSE j \in DOMAIN replies :
    /\ replies[j].status \notin {"fulfilled", "rejected"}
    /\ \A k \in 1..(j - 1) : replies[k].status \in {"fulfilled", "rejected"}

\* Promise.allSettled(sampled.map(...)): the outcome of the i-th promise is
\* the i-th element of the result
SettledSlot(replies, i) == i

\* the i-th call settles while a call for an earlier persona of the cohort
\* has not; the request keeps in outOfOrder whether that ever happened
BeforeEarlierCall(replies, i) ==
  \E k \in 1..(i - 1) : replies[k].status \notin {"fulfilled", "rejected"}

\* generatePersonaReply resolves: the task's promise is fulfilled (call
\* records which callback of sampled.map the outcome belongs to)
TaskFulfil(r, i) ==
  /\ "replies" \in DOMAIN requests[r]
  /\ i \in DOMAIN requests[r].replies
  /\ requests[r].replies[i] = Running
  /\ \E object \in ProviderObjectChoices(requests[r].sampled[i]) :
       requests' = [requests EXCEPT
         ![r].replies[SettledSlot(requests[r].replies, i)] =
         [status |-> "fulfilled", call |-> i,
          value |-> TaskValue(requests[r].sampled[i], GeneratedReply(object),
                              AreaSummary(requests[r].areaStore,
                                          requests[r].sampled[i]))],
         ![r].outOfOrder = @ \/ BeforeEarlierCall(requests[r].replies, i)]
  /\ Release(RouteOf(r), "fulfilled")
  /\ UNCHANGED <<fnVars, libVars>>

\* generatePersonaReply throws an error whose message is one of messages: the
\* task's promise is rejected
TaskRejectWith(r, i, messages) ==
  /\ "replies" \in DOMAIN requests[r]
  /\ i \in DOMAIN requests[r].replies
  /\ requests[r].replies[i] = Running
  /\ \E message \in messages :
       requests' = [requests EXCEPT
         ![r].replies[SettledSlot(requests[r].replies, i)] =
         [status |-> "rejected", call |-> i, reason |-> message],
         ![r].outOfOrder = @ \/ BeforeEarlierCall(requests[r].replies, i)]
  /\ Release(RouteOf(r), "rejected")
  /\ UNCHANGED <<fnVars, libVars>>

TaskReject(r, i) == TaskRejectWith(r, i, {sProviderError})

\* -------------------------------------------------------------- ask: join
\* a join that, like Promise.all, also ends at the first rejection
JoinReadyFailFast(replies) ==
  \/ \A i \in DOMAIN replies : replies[i].status = "fulfilled"
  \/ \E i \in DOMAIN replies : replies[i].status = "rejected"

\* Promise.allSettled resolves when every promise is fulfilled or rejected
JoinReady(replies) ==
  \A i \in DOMAIN replies : replies[i].status \in {"fulfilled", "rejected"}

\* replies.flatMap((reply) => reply.status === "fulfilled" ? [reply.value] : [])
FulfilledValues(replies) ==
  LET kept == SelectSeq(replies, LAMBDA reply : reply.status = "fulfilled")
  IN  [i \in DOMAIN kept |-> kept[i].value]

\* message.replace(/\s+/g, " ").trim().slice(0, 400)
RouteReasonMaxLength == 400
RouteReason(message) == slice(trim(CollapseWhitespace(message)), RouteReasonMaxLength)

\* replies.flatMap((reply, index) => reply.status !== "rejected" ? [] : [...])
RECURSIVE FailureDetails(_, _)
FailureDetails(replies, sampled) ==
  IF replies = <<>> THEN <<>>
  ELSE LET n == Len(replies)
           before == FailureDetails(SubSeq(replies, 1, n - 1), sampled)
       IN  IF replies[n].status # "rejected" THEN before
           ELSE Append(before, [uuid |-> sampled[n].uuid,
                                planning_area |-> sampled[n].planning_area,
                                occupation |-> sampled[n].occupation,
                                reason |-> RouteReason(replies[n].reason)])

\* AskInsufficient with the quorum of the chat route
AskInsufficientChatQuorum(responses) == Len(responses) < ChatMinResponses

\* responses.length < 5
AskInsufficient(responses) == Len(responses) < AskMinResponses

\* failures > 0 ? [`${failures} persona responses failed and were skipped.`] : []
sFailedAndSkipped == "persona responses failed and were skipped."

\* AskWarnings that also warns when nothing failed
AskWarningsAlways(failures) == <<[count |-> failures, text |-> sFailedAndSkipped]>>

AskWarnings(failures) ==
  IF failures > 0 THEN <<[count |-> failures, text |-> sFailedAndSkipped]>> ELSE <<>>

\* AskResponseSchema.parse(payload): the numeric ranges of the schema
AskResponseValid(payload) ==
  /\ payload.summary.mean_score.num >= -2000 * payload.summary.mean_score.den
  /\ payload.summary.mean_score.num <= 2000 * payload.summary.mean_score.den
  /\ payload.cohort.filters.sample_size >= MinSampleSize
  /\ \A i \in DOMAIN payload.responses :
       /\ payload.responses[i].stance \in -2..2
       /\ payload.responses[i].confidence \in 0..ConfidenceOne
       /\ payload.responses[i].score[1] \in -2000..2000

\* a server that has debugging on whatever its environment says
isDebugEnabledAlways == TRUE

\* process.env.NODE_ENV === "development" || process.env.ASK_DEBUG === "1"
isDebugEnabled == env.debug

\* const MAX_DEBUG_FAILURES = 8
MAX_DEBUG_FAILURES == 8

\* POST /api/ask from the resolution of Promise.allSettled to its response
AskJoinResponse(request) ==
  LET replies == request.replies
      sampled == request.sampled
      responses == FulfilledValues(replies)
      failureDetails == FailureDetails(replies, sampled)
      failureReasons == [i \in DOMAIN failureDetails |-> failureDetails[i].reason]
      reasonCounts == summarizeFailureReasons(failureReasons)
      failures == Len(replies) - Len(responses)
      aggregated == aggregateSentiment(responses)
      payload == [status |-> 200,
                  summary |-> aggregated.summary,
                  cohort |-> [total_matches |-> request.total_matches,
                              sampled |-> Len(sampled),
                              filters |-> request.filters],
                  area_sentiments |-> aggregated.area_sentiments,
                  responses |-> responses,
                  warnings |-> AskWarnings(failures)]
  IN  IF AskInsufficient(responses)
      THEN [status |-> 502,
            error |-> "Model provider did not return enough responses.",
            sample_size |-> Len(sampled),
            total_matches |-> request.total_matches,
            failed_calls |-> failures,
            successful_calls |-> Len(responses),
            debug |-> IF isDebugEnabled
                      THEN Some([reason_counts |-> reasonCounts,
                                 failures |-> slice(failureDetails, MAX_DEBUG_FAILURES)])
                      ELSE None]
      ELSE IF AskResponseValid(payload) THEN payload
      ELSE [status |-> 400, error |-> "ZodError"]

\* ------------------------------------------------ the cohorts table
\* a query that never finds the cohort
FirstByCohortIdNone(table, id) == None

\* ctx.db.query("cohorts").withIndex("by_cohort_id", q => q.eq(...)).first():
\* None or Some(the position of the first document with the cohort_id)
FirstByCohortId(table, id) ==
  IF \E i \in DOMAIN table : table[i].cohort_id = id
  THEN Some(CHOOSE i \in DOMAIN table :
              /\ table[i].cohort_id = id
              /\ \A j \in 1..(i - 1) : table[j].cohort_id # id)
  ELSE None

\* the mutation create: the table after it and the document it returns
create(table, args) ==
  LET existing == FirstByCohortId(table, args.cohort_id)
      inserted == [_id |-> Len(table) + 1,
                   cohort_id |-> args.cohort_id,
                   created_at |-> args.created_at,
                   filters |-> args.filters,
                   total_matches |-> args.total_matches,
                   personas |-> args.personas,
                   last_turn |-> args.last_turn]
  IN  IF existing # None
      THEN [table |-> table, result |-> Some(table[existing[1]])]
      ELSE [table |-> Append(table, inserted), result |-> Some(inserted)]

\* the query getByCohortId
getByCohortId(table, id) ==
  LET existing == FirstByCohortId(table, id)
  IN  IF existing # None THEN Some(table[existing[1]]) ELSE None

\* the mutation setLastTurn: the table after it and the document it
\* returns, or null
setLastTurn(table, args) ==
  LET existing == FirstByCohortId(table, args.cohort_id)
  IN  IF existing = None
      THEN [table |-> table, result |-> None]
      ELSE LET patched == [table EXCEPT ![existing[1]].last_turn = Some(args.last_turn)]
           IN  [table |-> patched, result |-> Some(patched[existing[1]])]

\* fromConvexCohort(doc)
fromConvexCohort(doc) ==
  [id |-> doc.cohort_id,
   created_at |-> doc.created_at,
   filters |-> doc.filters,
   total_matches |-> doc.total_matches,
   personas |-> doc.personas,
   last_turn |-> doc.last_turn]

\* toCohortResponse(cohort)
toCohortResponse(cohort) ==
  [cohort_id |-> cohort.id,
   created_at |-> cohort.created_at,
   filters |-> cohort.filters,
   total_matches |-> cohort.total_matches,
   cohort_size |-> Len(cohort.personas),
   personas |-> cohort.personas,
   last_turn |-> cohort.last_turn]

\* convex.mutation(...): the call is sent and a promise returned
MutationSent(db, op, args) ==
  [db EXCEPT !.pending = Append(@, [op |-> op, args |-> args])]

\* the database runs one of the mutations sent to it, as a transaction
ConvexMutationRuns ==
  /\ \E i \in DOMAIN convex.pending :
       LET sent == convex.pending[i]
           out == IF sent.op = "create" THEN create(convex.cohorts, sent.args)
                  ELSE setLastTurn(convex.cohorts, sent.args)
           rest == [j \in 1..(Len(convex.pending) - 1) |->
                      IF j < i THEN convex.pending[j] ELSE convex.pending[j + 1]]
       IN  convex' = [cohorts |-> out.table, pending |-> rest]
  /\ UNCHANGED <<fnVars, sysVars, env, rateVars, storeVars, gen>>

\* ---------------------------------------------------------- cohort create
\* randomUUID() of the createCohort call of a request
CohortIdOf(r) == IF r = "create1" THEN "cohort1" ELSE "cohort2"

\* the bodies of the create requests after CreateCohortSchema.parse (strings
\* trimmed, "" for a query left out): everyone with the ages swapped, the
\* personas of one area, nobody, and a body the schema rejects
CreateBody(k, areaQuery) ==
  [valid |-> TRUE, age_min |-> 120, age_max |-> 18, sample_size |-> k,
   occupation_query |-> <<>>, planning_area_query |-> areaQuery, sex |-> None]

sYisQuery == <<"Y", "i", "s">>

CreateBodyChoices ==
  { CreateBody(MinSampleSize, <<>>),
    CreateBody(MinSampleSize, sYisQuery),
    CreateBody(MinSampleSize, sZz),
    [valid |-> FALSE] }

\* input.x || undefined
OrUndefined(opt) == IF opt # None /\ opt[1] # <<>> THEN opt ELSE None

\* normalizeFilters(input)
normalizeFilters(input) ==
  [age_min |-> Min2(input.age_min, input.age_max),
   age_max |-> Max2(input.age_min, input.age_max),
   sample_size |-> input.sample_size,
   occupation_query |-> OrUndefined(Some(input.occupation_query)),
   planning_area_query |-> OrUndefined(Some(input.planning_area_query)),
   sex |-> OrUndefined(input.sex)]

\* filters.x?.toLowerCase().trim()
LowerTrimmed(opt) == IF opt = None THEN None ELSE Some(trim(toLowerCase(opt[1])))

\* the predicate of store.personas.filter(...) in the create route
CreateMatches(persona, filters) ==
  LET occupationQuery == LowerTrimmed(filters.occupation_query)
      areaQuery == LowerTrimmed(filters.planning_area_query)
      sexQuery == LowerTrimmed(filters.sex)
  IN  /\ persona.age >= filters.age_min
      /\ persona.age <= filters.age_max
      /\ (sexQuery # None /\ sexQuery[1] # <<>>) =>
           toLowerCase(persona.sex) = sexQuery[1]
      /\ (occupationQuery # None /\ occupationQuery[1] # <<>>) =>
           includes(toLowerCase(persona.occupation), occupationQuery[1])
      /\ (areaQuery # None /\ areaQuery[1] # <<>>) =>
           includes(toLowerCase(persona.planning_area), areaQuery[1])

\* createCohort is an async function: it runs up to its await, where the
\* mutation has been sent, and returns a promise
createCohortArgs(r, params, t) ==
  [cohort_id |-> CohortIdOf(r),
   created_at |-> t,
   filters |-> params.filters,
   total_matches |-> params.totalMatches,
   personas |-> params.personas,
   last_turn |-> None]

sNoLength == "Cannot read properties of undefined (reading 'length')"

\* POST /api/cohort/create, in a process that has loaded the persona store;
\* the route calls createCohort without awaiting it, and toCohortResponse
\* reads cohort.personas.length of the promise
CreatePost(r) ==
  /\ r \in CreateIds
  /\ requests[r].pc = "idle"
  /\ \E parsed \in CreateBodyChoices, random \in RandomChoices :
       IF ~parsed.valid
       THEN /\ requests' = [requests EXCEPT ![r] =
                 [pc |-> "responded", body |-> parsed,
                  response |-> [status |-> 400, error |-> "ZodError"]]]
            /\ UNCHANGED convex
       ELSE LET filters == normalizeFilters(parsed)
                candidates == SelectSeq(WarmPersonaStore.personas,
                                        LAMBDA persona : CreateMatches(persona, filters))
                cohortPersonas ==
                  sampleFromCandidates(candidates,
                                       Min2(filters.sample_size, Len(candidates)),
                                       ConstantDraws(candidates, random))
            IN  IF Len(candidates) = 0
                THEN /\ requests' = [requests EXCEPT ![r] =
                          [pc |-> "responded", body |-> parsed,
                           response |-> [status |-> 404,
                                         error |-> "No personas match the selected filters."]]]
                     /\ UNCHANGED convex
                ELSE /\ convex' = MutationSent(convex, "create",
                          createCohortArgs(r, [filters |-> filters,
                                               totalMatches |-> Len(candidates),
                                               personas |-> cohortPersonas], now))
                     /\ requests' = [requests EXCEPT ![r] =
                          [pc |-> "responded", body |-> parsed,
                           candidates |-> candidates,
                           response |-> [status |-> 400, error |-> sNoLength]]]
  /\ UNCHANGED <<fnVars, workerLimit, env, rateVars, storeVars, gen>>

\* ------------------------------------------------------------------- chat
\* getCohort is an async function: a call of it returns a promise (of the
\* stored record, or of null)
getCohort(table, id) ==
  LET doc == getByCohortId(table, id)
  IN  [promise |-> TRUE,
       resolvesTo |-> IF doc # None THEN Some(fromConvexCohort(doc[1])) ELSE None]

\* !cohort: a promise is an object, and never falsy
Falsy(value) == ~value.promise /\ value.resolvesTo = None

\* value.personas: a promise has no such property, and the read is undefined
PersonasOf(value) ==
  IF value.promise THEN None ELSE Some(value.resolvesTo[1].personas)

\* the parsed body of a chat request and the last user question in it
ChatBodyChoices ==
  [cohortId : {Some("cohort1")}, question : {Some("question")}]

\* POST /api/chat up to "await Promise.allSettled"; the route calls getCohort
\* without awaiting it
ChatPostOf(r, bodies) ==
  /\ r \in ChatIds
  /\ requests[r].pc = "idle"
  /\ \E parsed \in bodies, apiKey \in {TRUE} :
       IF parsed.cohortId = None
       THEN /\ RespondWith(r, [body |-> parsed], [status |-> 400, error |-> "Missing cohortId."])
            /\ UNCHANGED workerLimit
       ELSE LET cohort == getCohort(convex.cohorts, parsed.cohortId[1])
            IN  IF Falsy(cohort)
                THEN /\ RespondWith(r, [body |-> parsed, cohort |-> cohort], [status |-> 404,
                                    error |-> "Cohort not found or expired."])
                     /\ UNCHANGED workerLimit
                ELSE IF parsed.question = None
                THEN /\ RespondWith(r, [body |-> parsed, cohort |-> cohort], [status |-> 400, error |-> "No user message found."])
                     /\ UNCHANGED workerLimit
                ELSE IF ~apiKey
                THEN /\ RespondWith(r, [body |-> parsed, cohort |-> cohort], [status |-> 500,
                                    error |-> "Server is missing GEMINI_API_KEY."])
                     /\ UNCHANGED workerLimit
                ELSE IF PersonasOf(cohort) = None
                THEN \* cohort.personas.map throws a TypeError, caught below
                     /\ RespondWith(r, [body |-> parsed, cohort |-> cohort], [status |-> 400,
                                    error |-> "Cannot read properties of undefined"])
                     /\ UNCHANGED workerLimit
                ELSE StartFanOut(r, [body |-> parsed, cohort |-> cohort,
                                     question |-> parsed.question[1],
                                     areaStore |-> WarmAreaStore],
                                 PersonasOf(cohort)[1])
  /\ UNCHANGED <<fnVars, libVars>>

ChatPost(r) == ChatPostOf(r, ChatBodyChoices)

\* failures.slice(0, 4)
ChatMaxDebugReasons == 4

\* POST /api/chat from the resolution of Promise.allSettled to its response
ChatJoinResponse(request) ==
  LET responses == FulfilledValues(request.replies)
      rejected == SelectSeq(request.replies, LAMBDA reply : reply.status = "rejected")
      failures == [i \in DOMAIN rejected |-> rejected[i].reason]
  IN  IF Len(responses) < ChatMinResponses
      THEN [status |-> 502,
            error |-> "Not enough persona responses were generated for this turn.",
            debug_reasons |-> IF isDebugEnabled
                              THEN Some(slice(failures, ChatMaxDebugReasons))
                              ELSE None]
      ELSE [status |-> 200, turn |-> aggregateSentiment(responses)]

\* ---------------------------------------------------------------- the join
\* await Promise.allSettled(...) resumes the handler, which responds
Join(r) ==
  /\ requests[r].pc = "fanout"
  /\ JoinReady(requests[r].replies)
  /\ Respond(r, IF RouteOf(r) = "ask" THEN AskJoinResponse(requests[r])
                ELSE ChatJoinResponse(requests[r]))
  /\ convex' = IF RouteOf(r) = "chat" /\ ChatJoinResponse(requests[r]).status = 200
               THEN \* setCohortLastTurn(cohort.id, {...}), not awaited
                    MutationSent(convex, "setLastTurn",
                                 [cohort_id |-> requests[r].body.cohortId[1],
                                  last_turn |-> ChatJoinResponse(requests[r]).turn])
               ELSE convex
  /\ UNCHANGED <<workerLimit, fnVars, env, rateVars, storeVars, gen>>

\* ------------------------------------------------------- the whole process
Init ==
  /\ InitIdleSystem
  /\ call = NoCall
  /\ returned = None

Next ==
  \/ \E r \in AskIds : AskPost(r)
  \/ \E r \in ChatIds : ChatPost(r)
  \/ \E route \in Routes : LimiterRun(route)
  \/ \E r \in RequestIds : \E i \in 1..Len(Population) : TaskFulfil(r, i)
  \/ \E r \in RequestIds : \E i \in 1..Len(Population) : TaskReject(r, i)
  \/ \E r \in RequestIds : Join(r)

Spec == Init /\ [][Next]_vars

\* ------------------------------------------- filterPersonas, called alone
AgeChoices == {25, 60}
SexChoices == {None, Some(<<>>), Some(<<"f", " ">>)}
OccupationQueryChoices == {None, Some(<<"T", "U">>)}
AreaQueryChoices == {None, Some(<<" ", "a", "m">>)}
OccupationsChoices == {None, Some(<< <<" ">> >>), Some(<< <<"S","T","U">>, <<"t","e","a"," ">> >>)}
PlanningAreasChoices == {None, Some(<< <<"b","e","d">>, <<"Y","i","s">> >>)}

FilterChoices ==
  [age_min : AgeChoices, age_max : AgeChoices, sex : SexChoices,
   occupation_query : OccupationQueryChoices,
   planning_area_query : AreaQueryChoices,
   occupations : OccupationsChoices,
   planning_areas : PlanningAreasChoices]

InitFilter ==
  /\ InitIdleSystem
  /\ call \in {[fn |-> "filterPersonas", personas |-> PersonasAt(idx), filters |-> f] :
                  idx \in DistinctSeqs(Len(Population), MaxFilterPersonas),
                  f \in FilterChoices}
  /\ returned = None

FilterReturn ==
  /\ call.fn = "filterPersonas"
  /\ returned = None
  /\ returned' = Some(filterPersonas(call.personas, call.filters))
  /\ UNCHANGED <<call, sysVars, libVars>>

NextFilter == FilterReturn

SpecFilter == InitFilter /\ [][NextFilter]_vars

\* ------------------------------------- sampleFromCandidates, called alone
\* the candidates are what a filter can leave of the first personas of the
\* store: a subsequence of them
SamplePool == SubSeq(Population, 1, Len(Population) - 1)

InitSample ==
  /\ InitIdleSystem
  /\ call \in {[fn |-> "sampleFromCandidates", candidates |-> PersonasAt(idx),
                 sampleSize |-> k] :
                  idx \in IncreasingSeqs(Len(SamplePool), MaxCandidates),
                  k \in 0..(MaxCandidates + 1)}
  /\ returned = None

SampleReturn ==
  /\ call.fn = "sampleFromCandidates"
  /\ returned = None
  /\ \E rnd \in SampleDraws(call.candidates, call.sampleSize) :
        returned' = Some(sampleFromCandidates(call.candidates, call.sampleSize, rnd))
  /\ UNCHANGED <<call, sysVars, libVars>>

NextSample == SampleReturn

SpecSample == InitSample /\ [][NextSample]_vars

\* --------------------------------------- aggregateSentiment, called alone
\* (area, sentiment label, score in thousandths) of the replies handed in;
\* some labels disagree with the sign of the score
ReplyChoices ==
  { <<TAM, "positive", 800>>, <<TAM, "positive", 700>>, <<TAM, "negative", -200>>,
    <<TAM, "neutral", 200>>, <<TAM, "negative", -800>>,
    <<BED, "negative", -800>>, <<BED, "positive", 200>>, <<BED, "neutral", 800>>,
    <<BED, "positive", -200>>, <<BED, "neutral", 0>> }

PersonaResponse(u, choice) ==
  [uuid |-> u, planning_area |-> choice[1], sentiment |-> choice[2],
   score |-> Some(choice[3])]

InitAggregate ==
  /\ InitIdleSystem
  /\ call \in {[fn |-> "aggregateSentiment",
                 responses |-> [i \in DOMAIN cs |-> PersonaResponse(i, cs[i])]] :
                  cs \in UNION {[1..n -> ReplyChoices] : n \in 0..MaxReplies}}
  /\ returned = None

AggregateReturn ==
  /\ call.fn = "aggregateSentiment"
  /\ returned = None
  /\ returned' = Some(aggregateSentiment(call.responses))
  /\ UNCHANGED <<call, sysVars, libVars>>

NextAggregate == AggregateReturn

SpecAggregate == InitAggregate /\ [][NextAggregate]_vars

\* ---------------------------------- summarizeFailureReasons, called alone
\* provider error messages; the fifth and the seventh differ in their blanks
\* only
ReasonPool ==
  << <<"a">>, <<"b">>, <<"c">>, <<"d">>,
     <<"x", " ", " ", "y">>, <<"e">>, <<" ", "x", "\t", "y", "\n">> >>

\* the first k messages of the pool, then up to MaxExtraReasons more
ReasonLists ==
  {SubSeq(ReasonPool, 1, k) \o [i \in DOMAIN extra |-> ReasonPool[extra[i]]] :
     k \in 0..Len(ReasonPool),
     extra \in UNION {[1..m -> 1..Len(ReasonPool)] : m \in 0..MaxExtraReasons}}

InitSummarize ==
  /\ InitIdleSystem
  /\ \E reasons \in ReasonLists :
       call = [fn |-> "summarizeFailureReasons", reasons |-> reasons]
  /\ returned = None

SummarizeReturn ==
  /\ call.fn = "summarizeFailureReasons"
  /\ returned = None
  /\ returned' = Some(summarizeFailureReasons(call.reasons))
  /\ UNCHANGED <<call, sysVars, libVars>>

NextSummarize == SummarizeReturn

SpecSummarize == InitSummarize /\ [][NextSummarize]_vars

\* ----------------------------------------- generatePersonaReply, called alone
InitReply ==
  /\ InitIdleRoutes
  /\ call = NoCall
  /\ returned = None
  /\ windows = NoWindows
  /\ now = 0
  /\ rateLog = <<>>
  /\ convex = EmptyConvex
  /\ personaCache = None
  /\ areaCache = None
  /\ fileReads = [personaFile |-> 0, areaFile |-> 0, personaCache |-> 0, areaCache |-> 0]
  /\ storeCalls = [c \in CallerIds |-> [persona |-> NotCalled, area |-> NotCalled]]
  /\ \E keys \in SUBSET EnvKeys :
       /\ env = [NormalEnv EXCEPT !.keys = keys]
       /\ \E model \in SUPPORTED_MODEL_IDS : gen = GenCalled(model, keys)

NextReply ==
  \/ GenSkipCandidate
  \/ GenAttemptSucceeds
  \/ GenAttemptFails
  \/ GenThrow

SpecReply == InitReply /\ [][NextReply]_vars

\* ------------------------------------------------ the store getters alone
InitStore ==
  /\ InitIdleRoutes
  /\ InitIdleLib
  /\ call = NoCall
  /\ returned = None
  /\ \E personaFile, areaFile \in BOOLEAN :
       env = [NormalEnv EXCEPT !.personaFile = personaFile, !.areaFile = areaFile]

NextStore ==
  \/ \E c \in CallerIds : CallGetPersonaStore(c)
  \/ \E c \in CallerIds : CallBothStores(c)
  \/ \E c \in CallerIds : PersonaFileRead(c)
  \/ \E c \in CallerIds : AreaFileRead(c)

SpecStore == InitStore /\ [][NextStore]_vars

\* ------------------------------------------- the ask route from a cold start
\* deployments with and without each dataset file, with no API key or the
\* OpenAI key only, and a client at the start or at the end of its rate window
InitIntake ==
  /\ InitIdleRoutes
  /\ call = NoCall
  /\ returned = None
  /\ personaCache = None
  /\ areaCache = None
  /\ fileReads = [personaFile |-> 0, areaFile |-> 0, personaCache |-> 0, areaCache |-> 0]
  /\ storeCalls = [c \in CallerIds |-> [persona |-> NotCalled, area |-> NotCalled]]
  /\ gen = GenIdle
  /\ windows \in {NoWindows,
                  [key \in {AskClientKey} |->
                     [count |-> AskRateLimit - 1, resetAt |-> AskRateWindowMs]]}
  /\ now = 0
  /\ rateLog = <<>>
  /\ convex = EmptyConvex
  /\ \E personaFile, areaFile \in BOOLEAN, keys \in {{}, {"OPENAI_API_KEY"}} :
       env = [NormalEnv EXCEPT !.personaFile = personaFile, !.areaFile = areaFile,
                               !.keys = keys]

NextIntake ==
  \/ \E r \in AskIds : AskReceive(r)
  \/ \E r \in AskIds : PersonaFileRead(r)
  \/ \E r \in AskIds : AreaFileRead(r)
  \/ \E r \in AskIds : AskStoresReady(r)
  \/ LimiterRun("ask")
  \/ \E r \in AskIds : \E i \in 1..Len(Population) : TaskFulfil(r, i)
  \/ \E r \in AskIds : \E i \in 1..Len(Population) : TaskReject(r, i)
  \/ \E r \in AskIds : Join(r)

SpecIntake == InitIntake /\ [][NextIntake]_vars

\* ------------------------------------------- checkRateLimit, called alone
RateKeys == {"ask:a", "ask:b"}

InitRate ==
  /\ InitIdleSystem
  /\ call = NoCall
  /\ returned = None

\* one call of checkRateLimit; call keeps the Map as it was before the call
CheckRateLimitCall(key) ==
  /\ Len(rateLog) < MaxRateCalls
  /\ LET out == checkRateLimit(windows, key, RateLimitArg, RateWindowArg, now)
     IN  /\ call' = [fn |-> "checkRateLimit", key |-> key, at |-> now,
                     before |-> windows]
         /\ returned' = Some(out.result)
         /\ windows' = out.windows
         /\ rateLog' = Append(rateLog, RateLogEntry(key, now, out.result))
  /\ UNCHANGED <<sysVars, env, now, convex, storeVars, gen>>

NextRate ==
  \/ Tick
  \/ \E key \in RateKeys : CheckRateLimitCall(key)

SpecRate == InitRate /\ [][NextRate]_vars

\* ------------------------------------------ the cohort mutations, alone
CohortIds == {"cohort1", "cohort2"}

\* the arguments of create: two cohorts for each id
CohortArgsChoices ==
  { [cohort_id |-> id, created_at |-> 0, filters |-> "filters",
     total_matches |-> Len(personas), personas |-> personas, last_turn |-> None] :
      id \in CohortIds, personas \in {SubSeq(Population, 1, 2), SubSeq(Population, 3, 5)} }

TurnChoices == {"turn1", "turn2"}

InitCohorts ==
  /\ InitIdleSystem
  /\ call = NoCall
  /\ returned = None

\* one mutation or query of the cohorts table; call keeps the table as it
\* was before
CohortCreateCall ==
  /\ \E args \in CohortArgsChoices :
       LET out == create(convex.cohorts, args)
       IN  /\ call' = [fn |-> "create", args |-> args, before |-> convex.cohorts]
           /\ returned' = Some(out.result)
           /\ convex' = [convex EXCEPT !.cohorts = out.table]
  /\ UNCHANGED <<sysVars, env, rateVars, storeVars, gen>>

CohortSetLastTurnCall ==
  /\ \E id \in CohortIds \cup {"nobody"}, turn \in TurnChoices :
       LET args == [cohort_id |-> id, last_turn |-> turn]
           out == setLastTurn(convex.cohorts, args)
       IN  /\ call' = [fn |-> "setLastTurn", args |-> args, before |-> convex.cohorts]
           /\ returned' = Some(out.result)
           /\ convex' = [convex EXCEPT !.cohorts = out.table]
  /\ UNCHANGED <<sysVars, env, rateVars, storeVars, gen>>

CohortGetCall ==
  /\ \E id \in CohortIds \cup {"nobody"} :
       /\ call' = [fn |-> "getByCohortId", args |-> [cohort_id |-> id],
                   before |-> convex.cohorts]
       /\ returned' = Some(getByCohortId(convex.cohorts, id))
  /\ UNCHANGED <<sysVars, libVars>>

NextCohorts ==
  \/ CohortCreateCall
  \/ CohortSetLastTurnCall
  \/ CohortGetCall

SpecCohorts == InitCohorts /\ [][NextCohorts]_vars

\* ------------------------- the cohort-create and chat routes on the table
CohortChatBodies ==
  [cohortId : {None, Some("cohort1"), Some("nobody")},
   question : {None, Some("question")}]

NextCohortRoutes ==
  \/ \E r \in CreateIds : CreatePost(r)
  \/ ConvexMutationRuns
  \/ \E r \in ChatIds : ChatPostOf(r, CohortChatBodies)

SpecCohortRoutes == Init /\ [][NextCohortRoutes]_vars

\* ------------------------- the routes with debugging on or off, and with
\* provider errors of several texts
DiagnosticBodies ==
  { AskBody(MinSampleSize, None, None),
    AskBody(MinSampleSize, None, Some(<<sYisPadded, YIS>>)) }

InitDiagnostics ==
  /\ InitIdleRoutes
  /\ InitIdleLib
  /\ \E debug \in BOOLEAN : env = [NormalEnv EXCEPT !.debug = debug]
  /\ call = NoCall
  /\ returned = None

NextDiagnostics ==
  \/ AskPostOf("ask1", DiagnosticBodies)
  \/ \E r \in ChatIds : ChatPost(r)
  \/ \E route \in Routes : LimiterRun(route)
  \/ \E r \in RequestIds : \E i \in 1..Len(Population) : TaskFulfil(r, i)
  \/ \E r \in RequestIds : \E i \in 1..Len(Population) :
       TaskRejectWith(r, i, ProviderErrorChoices)
  \/ \E r \in RequestIds : Join(r)

SpecDiagnostics == InitDiagnostics /\ [][NextDiagnostics]_vars

\* ------------------- one ask request whose cohort is larger than the pool,
\* scheduled fairly
LiveBodies == {AskBody(MaxAskSampleSize, None, None)}

LimiterRunAsk == LimiterRun("ask")
TaskSettles(r, i) == TaskFulfil(r, i) \/ TaskReject(r, i)
JoinAsk == Join("ask1")

NextLive ==
  \/ AskPostOf("ask1", LiveBodies)
  \/ LimiterRunAsk
  \/ \E i \in 1..Len(Population) : TaskFulfil("ask1", i)
  \/ \E i \in 1..Len(Population) : TaskReject("ask1", i)
  \/ JoinAsk

\* the event loop runs a queued task when a slot is free and resumes the
\* handler when the join resolves; a provider attempt completes or is
\* aborted by its timeout, so that a running call settles
FairLive ==
  /\ WF_vars(LimiterRunAsk)
  /\ \A i \in 1..Len(Population) : WF_vars(TaskSettles("ask1", i))
  /\ WF_vars(JoinAsk)

SpecLive == Init /\ [][NextLive]_vars /\ FairLive

\* ---------------------------------------------------------------- C3
\* a filter value is given when it is present and not blank
C3_Given(opt) == opt # None /\ trim(opt[1]) # <<>>

\* the non-blank members of an explicit set, surrounding blanks dropped
C3_GivenSet(optList) ==
  IF optList = None THEN {} ELSE {trim(x) : x \in Range(optList[1])} \ {<<>>}

C3_EqualIgnoringCase(a, b) == toLowerCase(a) = toLowerCase(b)

C3_ContainsIgnoringCase(s, q) ==
  \E i \in 1..(Len(s) + 1) : \E j \in (i - 1)..Len(s) :
     C3_EqualIgnoringCase(SubSeq(s, i, j), q)

C3_Satisfies(p, f) ==
  /\ \E lo, hi \in {f.age_min, f.age_max} :
        /\ {lo, hi} = {f.age_min, f.age_max}
        /\ lo <= p.age /\ p.age <= hi
  /\ C3_Given(f.sex) => C3_EqualIgnoringCase(p.sex, trim(f.sex[1]))
  /\ C3_GivenSet(f.occupations) # {} =>
        \E o \in C3_GivenSet(f.occupations) : C3_EqualIgnoringCase(trim(p.occupation), o)
  /\ C3_GivenSet(f.planning_areas) # {} =>
        \E a \in C3_GivenSet(f.planning_areas) :
           C3_EqualIgnoringCase(trim(p.planning_area), a)
  /\ C3_Given(f.occupation_query) =>
        C3_ContainsIgnoringCase(p.occupation, trim(f.occupation_query[1]))
  /\ C3_Given(f.planning_area_query) =>
        C3_ContainsIgnoringCase(p.planning_area, trim(f.planning_area_query[1]))

\* the positions of the input whose persona satisfies every active predicate
C3_Positions(input, f) == {i \in DOMAIN input : C3_Satisfies(input[i], f)}

C3_Nth(positions, k) ==
  CHOOSE i \in positions : Cardinality({j \in positions : j < i}) = k - 1

\* C3: filterPersonas returns exactly the input personas that satisfy every
\* active predicate (age within the order-corrected range, sex equal ignoring
\* case, membership in the explicit occupation and area sets ignoring case,
\* occupation and area queries as substrings ignoring case), in input order;
\* filter values are compared with their surrounding blanks dropped, and an
\* empty result is an ordinary value.
C3_FilterExact ==
  (call.fn = "filterPersonas" /\ returned # None) =>
    LET input == call.personas
        output == returned[1]
        positions == C3_Positions(input, call.filters)
    IN  /\ Len(output) = Cardinality(positions)
        /\ \A k \in DOMAIN output : output[k] = input[C3_Nth(positions, k)]

\* two personas in, the first kept and the second dropped, with the sex, the
\* occupation set and both substring queries active
C3_Witness ==
  /\ call.fn = "filterPersonas" /\ returned # None
  /\ Len(call.personas) = 2 /\ returned[1] = <<call.personas[1]>>
  /\ call.personas[1].age = Min2(call.filters.age_min, call.filters.age_max)
  /\ C3_Given(call.filters.sex)
  /\ C3_GivenSet(call.filters.occupations) # {}
  /\ C3_Given(call.filters.occupation_query)
  /\ C3_Given(call.filters.planning_area_query)
  /\ call.filters.age_min > call.filters.age_max

\* ---------------------------------------------------------------- C1
C1_Areas(personas) == {personas[i].planning_area : i \in DOMAIN personas}

\* C1: sampleFromCandidates returns exactly min(target, |candidates|)
\* personas, each a member of the candidate list, no two with the same uuid.
C1_SampleSizeAndUniqueness ==
  (call.fn = "sampleFromCandidates" /\ returned # None) =>
    LET output == returned[1]
    IN  /\ Len(output) = Min2(call.sampleSize, Len(call.candidates))
        /\ \A i \in DOMAIN output : output[i] \in Range(call.candidates)
        /\ \A i, j \in DOMAIN output : i # j => output[i].uuid # output[j].uuid

\* five candidates, three wanted, and the fill phase has added to the two
\* picked by area, in an order that is not the candidates' own
C1_Witness ==
  /\ call.fn = "sampleFromCandidates" /\ returned # None
  /\ Len(call.candidates) = 5 /\ call.sampleSize = 3
  /\ Cardinality(C1_Areas(call.candidates)) = 2
  /\ Len(returned[1]) = 3
  /\ returned[1][1].uuid > returned[1][3].uuid

\* ---------------------------------------------------------------- C2
\* C2: whatever the random draws, the cohort spans at least min(target,
\* number of distinct candidate areas) distinct areas; for three candidates
\* of one area and two of another with target 4 it holds 4 distinct personas
\* of both areas.
C2_AreaDiversity ==
  (call.fn = "sampleFromCandidates" /\ returned # None) =>
    /\ Cardinality(C1_Areas(returned[1]))
          >= Min2(call.sampleSize, Cardinality(C1_Areas(call.candidates)))
    /\ ( /\ call.sampleSize = 4
         /\ Cardinality(C1_Areas(call.candidates)) = 2
         /\ \E a \in C1_Areas(call.candidates) :
              Len(AreaCandidates(call.candidates, a)) = 3
         /\ Len(call.candidates) = 5 )
        => /\ Cardinality({returned[1][i].uuid : i \in DOMAIN returned[1]}) = 4
           /\ C1_Areas(returned[1]) = C1_Areas(call.candidates)

\* scenario A, and a call where the areas are as many as the target
C2_Witness ==
  /\ call.fn = "sampleFromCandidates" /\ returned # None
  /\ call.sampleSize = 4 /\ Len(call.candidates) = 5
  /\ Cardinality(C1_Areas(call.candidates)) = 2
  /\ Len(returned[1]) = 4
  /\ Cardinality(C1_Areas(returned[1])) = 2

\* ---------------------------------------------------------------- C4
C4_Aggregated == call.fn = "aggregateSentiment" /\ returned # None

C4_CountIn(responses, area) ==
  Cardinality({i \in DOMAIN responses : responses[i].planning_area = area})

RECURSIVE C4_SumOver(_, _)
C4_SumOver(f, keys) ==
  IF keys = {} THEN 0
  ELSE LET k == CHOOSE x \in keys : TRUE
       IN  f[k].count + C4_SumOver(f, keys \ {k})

\* C4: the sentiment counts of the summary add up to summary.total, which is
\* the number of replies; the keys of area_sentiments are exactly the areas
\* of the replies, each with a count >= 1, and the area counts add up to
\* summary.total.
C4_CountsConserved ==
  C4_Aggregated =>
    LET summary == returned[1].summary
        areas == returned[1].area_sentiments
    IN  /\ summary.positive + summary.neutral + summary.negative = summary.total
        /\ summary.total = Len(call.responses)
        /\ DOMAIN areas = C1_Areas(call.responses)
        /\ \A a \in DOMAIN areas : areas[a].count >= 1
        /\ C4_SumOver(areas, DOMAIN areas) = summary.total

\* three replies of two areas, one of each sentiment
C4_Witness ==
  /\ C4_Aggregated
  /\ Len(call.responses) = 3
  /\ returned[1].summary.positive = 1 /\ returned[1].summary.neutral = 1
  /\ returned[1].summary.negative = 1
  /\ \E a \in DOMAIN returned[1].area_sentiments :
        returned[1].area_sentiments[a].count = 2

\* ---------------------------------------------------------------- C5
\* the scores of the replies of one area, in thousandths
C5_AreaScores(responses, area) ==
  LET inArea == SelectSeq(responses, LAMBDA r : r.planning_area = area)
  IN  [i \in DOMAIN inArea |-> inArea[i].score[1]]

\* C5: an area's sentiment is positive iff the mean of its reply scores is
\* above 0.3, negative iff it is below -0.3, and neutral otherwise (0.3 and
\* -0.3 themselves included), whatever the sentiment labels of the replies.
C5_AreaBucketByMean ==
  C4_Aggregated =>
    \A a \in DOMAIN returned[1].area_sentiments :
      LET scores == C5_AreaScores(call.responses, a)
          sentiment == returned[1].area_sentiments[a].sentiment
      IN  /\ (sentiment = "positive") <=> (SeqSum(scores) > 300 * Len(scores))
          /\ (sentiment = "negative") <=> (SeqSum(scores) < -300 * Len(scores))
          /\ (sentiment = "neutral") <=>
                ( /\ SeqSum(scores) <= 300 * Len(scores)
                  /\ SeqSum(scores) >= -300 * Len(scores) )

\* scenario C: scores 0.8, 0.7 and -0.2 in one area, one reply labelled
\* negative, and the area is positive
C5_Witness ==
  /\ C4_Aggregated
  /\ C5_AreaScores(call.responses, TAM) = <<800, 700, -200>>
  /\ call.responses[3].sentiment = "negative"
  /\ returned[1].area_sentiments[TAM].sentiment = "positive"

\* ---------------------------------------------------------------- C6
C6_AllScores(responses) == [i \in DOMAIN responses |-> responses[i].score[1]]

C6_IsMeanOf(q, scores) ==
  /\ q.den > 0
  /\ q.num * Len(scores) = SeqSum(scores) * q.den

C6_InRange(q) ==
  /\ q.den > 0
  /\ -2000 * q.den <= q.num /\ q.num <= 2000 * q.den

\* C6: for a non-empty reply list summary.mean_score is the sum of the scores
\* divided by their number, each area's score is the mean of the scores of
\* the area's replies, the mean of an empty list is 0, and with every score
\* in [-2, 2] every mean is in [-2, 2].
C6_MeansAreArithmetic ==
  C4_Aggregated =>
    LET responses == call.responses
        mean == returned[1].summary.mean_score
        areas == returned[1].area_sentiments
    IN  /\ Len(responses) > 0 => C6_IsMeanOf(mean, C6_AllScores(responses))
        /\ Len(responses) = 0 => (mean.den > 0 /\ mean.num = 0)
        /\ \A a \in DOMAIN areas :
              C6_IsMeanOf(areas[a].score, C5_AreaScores(responses, a))
        /\ C6_InRange(mean)
        /\ \A a \in DOMAIN areas : C6_InRange(areas[a].score)

\* three replies whose mean is no whole number of thousandths, in two areas
C6_Witness ==
  /\ C4_Aggregated
  /\ Len(call.responses) = 3
  /\ SeqSum(C6_AllScores(call.responses)) % 3 # 0
  /\ Cardinality(DOMAIN returned[1].area_sentiments) = 2
  /\ \E i \in DOMAIN call.responses :
        call.responses[i].score[1] # getSentimentScore(call.responses[i].sentiment)


\* ------------------------------------------------ claims on the ask fan-out
\* the ask requests that have fanned out, and those of them that have answered
Asked == {r \in AskIds : "replies" \in DOMAIN requests[r]}
AskAnswered == {r \in Asked : requests[r].pc = "responded"}

\* the positions of a request's cohort whose call has the given status
CallsWith(r, status) ==
  {i \in DOMAIN requests[r].replies : requests[r].replies[i].status = status}

Successes(r) == Cardinality(CallsWith(r, "fulfilled"))
Failures(r) == Cardinality(CallsWith(r, "rejected"))

\* C7: an ask request that answers with fewer than 5 successful calls answers
\* 502 with the counts of the failed and of the successful calls, and its
\* answer carries no summary, no area sentiments and no list of replies
C7_QuorumFailure ==
  \A r \in AskAnswered :
    Successes(r) < 5 =>
      /\ requests[r].response.status = 502
      /\ requests[r].response.failed_calls = Failures(r)
      /\ requests[r].response.successful_calls = Successes(r)
      /\ DOMAIN requests[r].response \cap
           {"responses", "summary", "area_sentiments", "cohort", "warnings"} = {}

\* scenario E: three calls of a cohort of seven succeed, and the answer is 502
C7_Witness ==
  \E r \in AskAnswered :
    /\ Len(requests[r].sampled) = 7
    /\ Successes(r) = 3
    /\ Failures(r) = 4
    /\ requests[r].response.status = 502

\* the uuids of the personas whose call succeeded
C8_SucceededUuids(r) == {requests[r].sampled[i].uuid : i \in CallsWith(r, "fulfilled")}

C8_WarningsFor(n) ==
  IF n > 0 THEN <<[count |-> n, text |-> "persona responses failed and were skipped."]>>
  ELSE <<>>

\* C8: an ask request that answers with at least 5 successful calls answers
\* 200; its responses are one reply for each persona whose call succeeded,
\* with distinct uuids of the sampled cohort; summary.total is the number of
\* successes, cohort.sampled is successes + failures, and warnings is the one
\* note naming the number N of failed calls when N > 0 and empty when N = 0
C8_SuccessPayload ==
  \A r \in AskAnswered :
    Successes(r) >= 5 =>
      LET response == requests[r].response
      IN  /\ response.status = 200
          /\ Len(response.responses) = Successes(r)
          /\ {response.responses[i].uuid : i \in DOMAIN response.responses}
               = C8_SucceededUuids(r)
          /\ Cardinality(C8_SucceededUuids(r)) = Successes(r)
          /\ C8_SucceededUuids(r) \subseteq
               {requests[r].sampled[i].uuid : i \in DOMAIN requests[r].sampled}
          /\ response.summary.total = Successes(r)
          /\ response.cohort.sampled = Successes(r) + Failures(r)
          /\ response.warnings = C8_WarningsFor(Failures(r))

\* five calls of a cohort of seven succeed and two fail: the answer is 200
\* with five replies and a warning naming two
C8_Witness ==
  \E r \in AskAnswered :
    /\ Successes(r) = 5
    /\ Failures(r) = 2
    /\ requests[r].response.status = 200
    /\ Len(requests[r].response.responses) = 5
    /\ Len(requests[r].response.warnings) = 1
    /\ requests[r].response.warnings[1].count = 2

\* the successes and the failures an answer reports
C9_Reported(response) ==
  IF response.status = 502
  THEN [successes |-> response.successful_calls, failures |-> response.failed_calls,
        cohort |-> response.sample_size]
  ELSE [successes |-> Len(response.responses),
        failures |-> IF response.warnings = <<>> THEN 0 ELSE response.warnings[1].count,
        cohort |-> response.cohort.sampled]

\* C9: the reply generator is never called twice for a persona of the cohort;
\* when the request answers, it has been called once for every persona and
\* every call has settled, whatever calls failed, and the successes and the
\* failures the answer reports add up to the size of the cohort
C9_OneCallPerPersona ==
  \A r \in Asked :
    /\ \A i \in DOMAIN requests[r].sampled :
         /\ requests[r].calls[i] <= 1
         /\ requests[r].replies[i].status # "pending" => requests[r].calls[i] = 1
    /\ requests[r].pc = "responded" =>
         /\ \A i \in DOMAIN requests[r].sampled :
              /\ requests[r].calls[i] = 1
              /\ requests[r].replies[i].status \in {"fulfilled", "rejected"}
         /\ Successes(r) + Failures(r) = Len(requests[r].sampled)
         /\ C9_Reported(requests[r].response).successes = Successes(r)
         /\ C9_Reported(requests[r].response).failures = Failures(r)
         /\ C9_Reported(requests[r].response).cohort = Len(requests[r].sampled)

\* a request of seven has answered, its first call failed and its last one
\* succeeded, and every persona had its call
C9_Witness ==
  \E r \in AskAnswered :
    /\ Len(requests[r].sampled) = 7
    /\ requests[r].replies[1].status = "rejected"
    /\ requests[r].replies[7].status = "fulfilled"
    /\ \A i \in 1..7 : requests[r].calls[i] = 1

\* the reply generator calls in flight in the process, over both routes
InFlight ==
  SumOf([r \in RequestIds |->
           IF "replies" \in DOMAIN requests[r]
           THEN Cardinality({i \in DOMAIN requests[r].replies :
                               requests[r].replies[i].status = "running"})
           ELSE 0],
        RequestIds)

C19_Called == call.fn = "summarizeFailureReasons" /\ returned # None

\* the normalized texts of the input, and how many inputs have a given one
C19_Texts == {NormalizeReason(call.reasons[i]) : i \in DOMAIN call.reasons}
C19_CountOf(text) ==
  Cardinality({i \in DOMAIN call.reasons : NormalizeReason(call.reasons[i]) = text})

\* C19: summarizeFailureReasons returns at most 5 entries with pairwise
\* distinct normalized texts; an entry's count is the number of input reasons
\* with that normalized text; the counts do not increase along the list; no
\* reason left out has a larger count than one that is in; and with at most 5
\* distinct reasons the counts add up to the number of failures
C19_FailureSummary ==
  C19_Called =>
    LET out == returned[1]
        included == {out[i].reason : i \in DOMAIN out}
    IN  /\ Len(out) <= 5
        /\ \A i, j \in DOMAIN out : i # j => out[i].reason # out[j].reason
        /\ included \subseteq C19_Texts
        /\ \A i \in DOMAIN out : out[i].count = C19_CountOf(out[i].reason)
        /\ \A i, j \in DOMAIN out : i < j => out[i].count >= out[j].count
        /\ \A t \in C19_Texts \ included :
             \A i \in DOMAIN out : C19_CountOf(t) <= out[i].count
        /\ Cardinality(C19_Texts) <= 5 =>
             SeqSum([i \in DOMAIN out |-> out[i].count]) = Len(call.reasons)

\* eight failures with six distinct normalized reasons, the one seen last
\* being the most frequent: it comes first and a reason seen once is left out
C19_Witness ==
  /\ C19_Called
  /\ Len(call.reasons) = 8
  /\ Cardinality(C19_Texts) = 6
  /\ Len(returned[1]) = 5
  /\ returned[1][1].reason = <<"e">>
  /\ returned[1][1].count = 3
  /\ \E i \in DOMAIN call.reasons :
       call.reasons[i] # NormalizeReason(call.reasons[i])


\* ---------------------------------------------------------------- C13
C13_Selected == getModelOption(gen.model)
C13_Fallback == getModelOption(C13_Selected.fallback)

\* the positions of the attempts made on a model
C13_AttemptsOn(id) == {i \in DOMAIN gen.attempts : gen.attempts[i].candidate = id}

\* C13: a generatePersonaReply call makes at most 3 attempts on the selected
\* model and then at most 3 on its fallback, only when that is another model,
\* at most 6 in all; an attempt on the fallback comes only after 3 failed
\* attempts on the selected model; no attempt follows a successful one, with
\* which the call returns; a model without API key gets no attempt; and the
\* call throws only when every model with a key has failed 3 times
C13_BoundedOrderedAttempts ==
  gen.pc # "idle" =>
    LET selected == C13_Selected.id
        fallback == C13_Fallback.id
        failed(i) == gen.attempts[i].outcome # "fulfilled"
    IN  /\ Len(gen.attempts) <= 6
        /\ \A i \in DOMAIN gen.attempts : gen.attempts[i].candidate \in {selected, fallback}
        /\ Cardinality(C13_AttemptsOn(selected)) <= 3
        /\ Cardinality(C13_AttemptsOn(fallback)) <= 3
        /\ fallback # selected =>
             \A j \in C13_AttemptsOn(fallback) :
               /\ Cardinality({i \in C13_AttemptsOn(selected) : i < j /\ failed(i)}) = 3
               /\ \A i \in C13_AttemptsOn(selected) : i < j
        /\ \A i \in DOMAIN gen.attempts : ~failed(i) => i = Len(gen.attempts)
        /\ \A i \in DOMAIN gen.attempts :
             getModelOption(gen.attempts[i].candidate).requiredEnv \in gen.keys
        /\ gen.pc = "returned" <=>
             (gen.attempts # <<>> /\ ~failed(Len(gen.attempts)))
        /\ gen.pc = "thrown" =>
             \A id \in {selected, fallback} :
               IF getModelOption(id).requiredEnv \in gen.keys
               THEN /\ Cardinality(C13_AttemptsOn(id)) = 3
                    /\ \A i \in C13_AttemptsOn(id) : failed(i)
               ELSE C13_AttemptsOn(id) = {}

\* a call returns at its fifth attempt: three failures on the selected model,
\* one of them an abort by the timer, a failure and a success on the fallback
C13_Witness ==
  /\ gen.pc = "returned"
  /\ Len(gen.attempts) = 5
  /\ gen.attempts[3].candidate # gen.attempts[4].candidate
  /\ \E i \in 1..3 : gen.attempts[i].outcome = "aborted"

\* ---------------------------------------------------------------- C14
\* the record the ask route builds from the reply a call has returned
C14_Record == TaskValue(Population[1], gen.result, None)

C14_SentimentOfStance(stance) ==
  IF stance > 0 THEN "positive" ELSE IF stance < 0 THEN "negative" ELSE "neutral"

\* stance in {-2..2}, confidence in [0, 1], and the sentiment follows the
\* sign of the stance
C14_StanceConfidenceSentiment(reply) ==
  /\ reply.stance \in -2..2
  /\ reply.stance = gen.object.stance
  /\ reply.confidence >= 0
  /\ reply.confidence <= ConfidenceOne
  /\ reply.sentiment = C14_SentimentOfStance(reply.stance)

\* the claim as made: the score is exactly stance x confidence (the score is
\* in thousandths, the confidence in ten-thousandths)
C14_ScoreIsExactProduct ==
  gen.pc = "returned" =>
    /\ C14_StanceConfidenceSentiment(gen.result)
    /\ 10 * gen.result.score = gen.result.stance * gen.result.confidence

\* C14: every reply a generatePersonaReply call returns, and the response
\* record the ask route builds from it, has stance in {-2,-1,0,1,2},
\* confidence in [0,1], sentiment positive, negative or neutral as the stance
\* is above, below or equal to 0, and score equal to stance x confidence
\* rounded to three decimals, hence within 0.0005 of the product and in
\* [-2, 2]
C14_DerivedFields ==
  gen.pc = "returned" =>
    /\ C14_StanceConfidenceSentiment(gen.result)
    /\ 10 * gen.result.score - gen.result.stance * gen.result.confidence \in -5..5
    /\ gen.result.score \in -2000..2000
    /\ C14_Record.stance = gen.result.stance
    /\ C14_Record.confidence = gen.result.confidence
    /\ C14_Record.score = Some(gen.result.score)
    /\ C14_Record.sentiment = gen.result.sentiment

\* a reply of stance -1 and confidence 0.3333 has the score -0.333
C14_Witness ==
  /\ gen.pc = "returned"
  /\ gen.result.stance = -1
  /\ gen.result.confidence = 3333
  /\ gen.result.score = -333
  /\ gen.result.sentiment = "negative"


\* ---------------------------------------------------------------- C11
\* the candidates the filters of a request select from the store
C11_Candidates(r) == filterPersonas(Population, AskFilters(requests[r].parsedBody))

C11_Answered == {r \in AskIds : requests[r].pc = "responded"}

C11_FannedOut(r) == "replies" \in DOMAIN requests[r]

\* C11: an ask request that ends with an input error (400, 429, 500) or with
\* the no-match error (404) has made no reply generator call; 404 is the
\* answer exactly when the request passed the intake and its filters select no
\* persona; and 502 is only the answer of a request that has fanned out, with
\* one call made for each persona of a cohort that is not empty
C11_FailFast ==
  \A r \in C11_Answered :
    LET status == requests[r].response.status
    IN  /\ status \in {400, 429, 500, 404} => ~C11_FannedOut(r)
        /\ status = 404 =>
             "parsedBody" \in DOMAIN requests[r] /\ C11_Candidates(r) = <<>>
        /\ ("parsedBody" \in DOMAIN requests[r] /\ C11_Candidates(r) = <<>>
              /\ status \notin {400, 429, 500}) => status = 404
        /\ status = 502 =>
             /\ C11_FannedOut(r)
             /\ requests[r].sampled # <<>>
             /\ C11_Candidates(r) # <<>>
             /\ \A i \in DOMAIN requests[r].sampled : requests[r].calls[i] = 1

\* one request was answered 404 without a fan-out, another 502 after its
\* fan-out
C11_Witness ==
  /\ requests["ask1"].pc = "responded"
  /\ requests["ask1"].response.status = 404
  /\ ~C11_FannedOut("ask1")
  /\ requests["ask2"].pc = "responded"
  /\ requests["ask2"].response.status = 502
  /\ C11_FannedOut("ask2")
  /\ windows[AskClientKey].count = 2

\* ---------------------------------------------------------------- C12
\* C12: a getPersonaStore call that starts after a call has completed
\* successfully returns the store object that call returned, and reads no file
C12_SameStoreLater ==
  \A c \in CallerIds :
    storeCalls[c].persona.status = "fulfilled" =>
      /\ \A id \in storeCalls[c].persona.after : storeCalls[c].persona.store.id = id
      /\ storeCalls[c].persona.after # {} => ~storeCalls[c].persona.read

\* ---------------------------------------------------------------- C16
\* C16: with the dataset in place, under every interleaving of getPersonaStore
\* calls the file is read at most once, the cache is assigned at most once and
\* all callers receive the same store object
C16_LoadedOnce ==
  env.personaFile =>
    /\ fileReads.personaFile <= 1
    /\ fileReads.personaCache <= 1
    /\ Cardinality(ReturnedStores("persona")) <= 1

\* ---------------------------------------------------------------- C15
C15_PastReceive == {r \in AskIds : "parsedBody" \in DOMAIN requests[r]}

\* the values of the calls of a request that are fulfilled
C15_Values(r) ==
  IF "replies" \in DOMAIN requests[r]
  THEN {requests[r].replies[i].value :
          i \in {j \in DOMAIN requests[r].replies :
                   requests[r].replies[j].status = "fulfilled"}}
  ELSE {}

\* C15: without the area-profile file, getAreaProfileStore never raises and
\* returns a store without profiles, no ask request ends for the lack of it,
\* and the replies have an empty area context; without the persona file,
\* every getPersonaStore call reads the file again and raises, the cache
\* stays unset, and an ask request past the rate limit ends with that error,
\* without cohort and without fan-out
C15_MissingDatasets ==
  /\ ~env.areaFile =>
       /\ \A r \in AskIds :
            /\ storeCalls[r].area.status # "rejected"
            /\ storeCalls[r].area.status = "fulfilled" =>
                 /\ storeCalls[r].area.store.profiles = <<>>
                 /\ DOMAIN storeCalls[r].area.store.byArea = {}
            /\ \A value \in C15_Values(r) : value.area_context = ""
       /\ env.personaFile =>
            \A r \in AskIds :
              requests[r].pc = "responded" =>
                requests[r].response.status \in {429, 500, 404, 502}
                  \/ requests[r].response.error \in
                       {"ZodError", "Model is not available on this server."}
  /\ ~env.personaFile =>
       /\ personaCache = None
       /\ fileReads.personaCache = 0
       /\ fileReads.personaFile = Cardinality(C15_PastReceive)
       /\ \A r \in AskIds : storeCalls[r].persona.status # "fulfilled"
       /\ \A r \in C15_PastReceive :
            requests[r].pc = "responded" =>
              /\ requests[r].response.status = 400
              /\ requests[r].response.error = sNoSuchFile
              /\ "sampled" \notin DOMAIN requests[r]
              /\ "replies" \notin DOMAIN requests[r]

\* with neither file, two ask requests have each read the persona file and
\* ended with its error, while the area store is cached, empty
C15_Witness ==
  /\ ~env.personaFile
  /\ ~env.areaFile
  /\ \A r \in AskIds :
       /\ requests[r].pc = "responded"
       /\ requests[r].response.error = sNoSuchFile
  /\ fileReads.personaFile = 2
  /\ personaCache = None
  /\ areaCache # None
  /\ areaCache[1].profiles = <<>>

\* without the area-profile file a request has fanned out and a reply of its
\* cohort has an empty area context
C15_AreaAbsentProceeds ==
  /\ ~env.areaFile
  /\ \E r \in AskIds : C15_Values(r) # {}

\* ------------------------------------------------------------------- C17
\* the record the call for the i-th persona of the cohort yields when it
\* succeeds
C17_Expected(r, i) ==
  LET persona == requests[r].sampled[i]
      object == CHOOSE o \in ProviderObjectChoices(persona) : TRUE
  IN  TaskValue(persona, GeneratedReply(object),
                AreaSummary(requests[r].areaStore, persona))

\* the records of the calls that succeeded, in cohort order
C17_ExpectedReplies(r) ==
  [k \in 1..Successes(r) |->
     C17_Expected(r, C3_Nth(CallsWith(r, "fulfilled"), k))]

\* the failure details of the calls that failed, in cohort order
C17_ExpectedFailures(r) ==
  [k \in 1..Failures(r) |->
     LET i == C3_Nth(CallsWith(r, "rejected"), k)
     IN  [uuid |-> requests[r].sampled[i].uuid,
          planning_area |-> requests[r].sampled[i].planning_area,
          occupation |-> requests[r].sampled[i].occupation,
          reason |-> RouteReason(requests[r].replies[i].reason)]]

\* C17: in whatever order the calls of a fan-out finish, the outcome kept at
\* position i of the join is the outcome of the call for the i-th persona of
\* the cohort, and a reply record carries the uuid, area and profile of that
\* persona; the answer of the ask route is a function of which calls
\* succeeded and which failed: its reply list is the records of the
\* successful calls in cohort order, its aggregate is aggregateSentiment of
\* that list, and (shown with debugging on) its failure details are those of
\* the failed calls in cohort order, each with the uuid, area and occupation
\* of the persona whose call failed and the text that call failed with
C17_CompletionOrderIndependence ==
  \A r \in Asked :
    LET replies == requests[r].replies
        sampled == requests[r].sampled
    IN  /\ \A j \in DOMAIN replies :
             replies[j].status \in {"fulfilled", "rejected"} =>
               /\ replies[j].call = j
               /\ replies[j].status = "fulfilled" =>
                    /\ replies[j].value = C17_Expected(r, j)
                    /\ replies[j].value.uuid = sampled[j].uuid
                    /\ replies[j].value.planning_area = sampled[j].planning_area
                    /\ replies[j].value.profile.age = sampled[j].age
                    /\ replies[j].value.profile.occupation = sampled[j].occupation
        /\ requests[r].pc = "responded" =>
             LET response == requests[r].response
                 expected == C17_ExpectedReplies(r)
             IN  /\ response.status \in {200, 502}
                 /\ response.status = 200 =>
                      /\ response.responses = expected
                      /\ response.summary = aggregateSentiment(expected).summary
                      /\ response.area_sentiments
                           = aggregateSentiment(expected).area_sentiments
                 /\ (response.status = 502 /\ response.debug # None) =>
                      /\ response.debug[1].failures
                           = slice(C17_ExpectedFailures(r), MAX_DEBUG_FAILURES)
                      /\ response.debug[1].reason_counts
                           = summarizeFailureReasons(
                               [k \in 1..Failures(r) |->
                                  C17_ExpectedFailures(r)[k].reason])

\* a cohort of five whose calls did not settle in cohort order has been
\* answered 200 with its five replies in cohort order
C17_Witness ==
  /\ requests["ask1"].pc = "responded"
  /\ requests["ask1"].outOfOrder
  /\ requests["ask1"].response.status = 200
  /\ Len(requests["ask1"].response.responses) = 5
  /\ \A k \in 1..5 :
       requests["ask1"].response.responses[k].uuid = requests["ask1"].sampled[k].uuid

\* a cohort whose calls did not settle in cohort order has been answered 502
\* with the failure details of two personas, in cohort order
C17_FailuresAttributed ==
  /\ requests["ask1"].pc = "responded"
  /\ requests["ask1"].outOfOrder
  /\ requests["ask1"].response.status = 502
  /\ requests["ask1"].response.debug # None
  /\ Len(requests["ask1"].response.debug[1].failures) = 2
  /\ requests["ask1"].response.debug[1].failures[1].reason
       # requests["ask1"].response.debug[1].failures[2].reason

\* ------------------------------------------------------------------- C20
\* the body of the ask route's quorum failure as the numbers of the fan-out
\* determine it
C20_AskBody(sampleSize, totalMatches, successes) ==
  [status |-> 502,
   error |-> "Model provider did not return enough responses.",
   sample_size |-> sampleSize,
   total_matches |-> totalMatches,
   failed_calls |-> sampleSize - successes,
   successful_calls |-> successes,
   debug |-> None]

C20_ChatBody ==
  [status |-> 502,
   error |-> "Not enough persona responses were generated for this turn.",
   debug_reasons |-> None]

\* C20: with debugging off, the quorum-failure body of the ask route is
\* determined by the cohort size, the number of matches and the number of
\* successful calls, and that of the chat route (its join taken over the same
\* outcomes) is one constant body: neither holds a provider error's text, so
\* runs that differ only in those texts get the same body; a body holds a
\* debug block, and so error text, only with debugging on
C20_ErrorTextOnlyInDebug ==
  \A r \in AskAnswered :
    LET response == requests[r].response
    IN  /\ (response.status = 502 /\ ~env.debug) =>
             response = C20_AskBody(Len(requests[r].sampled),
                                    requests[r].total_matches, Successes(r))
        /\ (Successes(r) < ChatMinResponses /\ ~env.debug) =>
             ChatJoinResponse(requests[r]) = C20_ChatBody
        /\ (response.status = 502 /\ response.debug # None) => env.debug
        /\ (Successes(r) < ChatMinResponses
              /\ ChatJoinResponse(requests[r]).debug_reasons # None) => env.debug
        /\ response.status = 200 =>
             /\ DOMAIN response = {"status", "summary", "cohort", "area_sentiments",
                                   "responses", "warnings"}
             /\ response.warnings = C8_WarningsFor(Failures(r))

\* with debugging off, a cohort of five of which two calls failed with
\* different texts and two with the same text has been answered 502 without
\* a debug block
C20_Witness ==
  /\ ~env.debug
  /\ requests["ask1"].pc = "responded"
  /\ requests["ask1"].response.status = 502
  /\ requests["ask1"].response.debug = None
  /\ Len(requests["ask1"].sampled) = 5
  /\ requests["ask1"].replies[1].status = "rejected"
  /\ requests["ask1"].replies[2].status = "rejected"
  /\ requests["ask1"].replies[3].status = "rejected"
  /\ requests["ask1"].replies[1].reason # requests["ask1"].replies[2].reason
  /\ requests["ask1"].replies[2].reason = requests["ask1"].replies[3].reason
  /\ ChatJoinResponse(requests["ask1"]) = C20_ChatBody

\* with debugging on, the same outcomes are answered with the two texts and
\* their counts in the debug block
C20_DebugShowsText ==
  /\ env.debug
  /\ requests["ask1"].pc = "responded"
  /\ requests["ask1"].response.status = 502
  /\ requests["ask1"].response.debug # None
  /\ Len(requests["ask1"].response.debug[1].reason_counts) = 2
  /\ requests["ask1"].response.debug[1].reason_counts[1].count = 2
  /\ ChatJoinResponse(requests["ask1"]).debug_reasons # None

\* ------------------------------------------------------------------- C18
\* the calls of a route that hold a slot of its limiter
C18_RunningOn(route) ==
  Cardinality({<<r, i>> \in RequestIds \X (1..Len(Population)) :
                 /\ RouteOf(r) = route
                 /\ "replies" \in DOMAIN requests[r]
                 /\ i \in DOMAIN requests[r].replies
                 /\ requests[r].replies[i] = Running})

\* the request has been answered from a join of exactly |cohort| settled
\* outcomes, its calls made once each and every slot given back
C18_AnsweredInFull(r) ==
  /\ requests[r].pc = "responded"
  /\ Successes(r) + Failures(r) = Len(requests[r].sampled)
  /\ \A i \in DOMAIN requests[r].calls : requests[r].calls[i] = 1
  /\ workerLimit[RouteOf(r)].activeCount = 0
  /\ requests[r].response.status \in {200, 502}
  /\ requests[r].response.status = 200 =>
       Len(requests[r].response.responses) = Successes(r)
  /\ requests[r].response.status = 502 =>
       /\ requests[r].response.successful_calls = Successes(r)
       /\ requests[r].response.failed_calls = Failures(r)

\* C18: when every running call settles (its attempts complete or are
\* aborted by their timeouts), an ask request that has fanned out is
\* eventually answered, and then every call of its cohort, queued ones
\* included, has had a slot once and has settled: the answer is made from
\* exactly |cohort| settled outcomes; the limiter's activeCount is always
\* the number of calls that hold a slot, a failed call giving its slot back
\* as a successful one does
C18_EventuallyAnswered ==
  /\ [](\A route \in Routes : workerLimit[route].activeCount = C18_RunningOn(route))
  /\ ("replies" \in DOMAIN requests["ask1"]) ~> C18_AnsweredInFull("ask1")

\* a cohort larger than the pool, of which six calls failed, has been
\* answered; the call that had to wait for a slot ran and succeeded
C18_Witness ==
  /\ C18_AnsweredInFull("ask1")
  /\ Len(requests["ask1"].sampled) > AskWorkerLimit
  /\ Failures("ask1") = AskWorkerLimit
  /\ requests["ask1"].replies[Len(requests["ask1"].sampled)].status = "fulfilled"
  /\ requests["ask1"].response.status = 502

\* ------------------------------------------------------------------- C29
C29_Called == call.fn = "checkRateLimit" /\ returned # None

\* C29: every stored window entry has 1 <= count <= limit; a denied call
\* leaves the Map as it was; a call changes the entry of no other key; and
\* the call's key, when it had an entry, has a fresh entry (count 1, resetAt
\* = now + windowMs) after the call exactly when the time of the call is
\* strictly greater than the stored resetAt (a key without an entry gets a
\* fresh one)
C29_WindowEntries ==
  /\ \A key \in DOMAIN windows :
       /\ windows[key].count >= 1
       /\ windows[key].count <= RateLimitArg
  /\ C29_Called =>
       LET fresh == [count |-> 1, resetAt |-> call.at + RateWindowArg]
       IN  /\ ~returned[1].allowed => windows = call.before
           /\ \A other \in DOMAIN call.before \ {call.key} :
                /\ other \in DOMAIN windows
                /\ windows[other] = call.before[other]
           /\ DOMAIN windows = DOMAIN call.before \cup {call.key}
           /\ call.key \in DOMAIN call.before =>
                (windows[call.key] = fresh
                   <=> call.at > call.before[call.key].resetAt)
           /\ call.key \notin DOMAIN call.before => windows[call.key] = fresh
           /\ (call.key \in DOMAIN call.before /\ returned[1].allowed
                 /\ call.at <= call.before[call.key].resetAt) =>
                windows[call.key] = [call.before[call.key] EXCEPT !.count = @ + 1]

\* a key whose first window was replaced has used up its second window and
\* its last call was denied, while the other key has a window of its own
C29_Witness ==
  /\ C29_Called
  /\ ~returned[1].allowed
  /\ windows[call.key].count = RateLimitArg
  /\ rateLog[1].key = call.key
  /\ windows[call.key].resetAt > rateLog[1].at + RateWindowArg
  /\ DOMAIN windows = RateKeys

\* ------------------------------------------------------------------- C22
\* the calls with the key that were allowed at an instant of the interval of
\* length windowMs that starts at from
C22_AllowedIn(key, from) ==
  {i \in DOMAIN rateLog :
     /\ rateLog[i].key = key
     /\ rateLog[i].allowed
     /\ rateLog[i].at >= from
     /\ rateLog[i].at < from + RateWindowArg}

\* C22: for every key, in every time interval of length windowMs at most
\* limit calls with that key are allowed
C22_SlidingWindowBound ==
  \A key \in RateKeys : \A from \in 0..MaxTime :
    Cardinality(C22_AllowedIn(key, from)) <= RateLimitArg

\* ------------------------------------------------------------------- C30
C30_Called(fn) == call.fn = fn /\ returned # None

C30_With(table, id) == {i \in DOMAIN table : table[i].cohort_id = id}

\* C30: the table holds at most one cohort per cohort_id; create with a
\* stored cohort_id returns the stored document and leaves the table as it
\* was, and with a new one appends the document it returns; setLastTurn
\* changes the last_turn of the addressed cohort and nothing else, and for an
\* unknown cohort_id returns null and leaves the table as it was
C30_CohortMutations ==
  LET table == convex.cohorts
  IN  /\ \A id \in CohortIds \cup {"nobody"} : Cardinality(C30_With(table, id)) <= 1
      /\ C30_Called("create") =>
           LET stored == C30_With(call.before, call.args.cohort_id)
           IN  /\ stored # {} =>
                    /\ table = call.before
                    /\ \E i \in stored : returned[1] = Some(call.before[i])
               /\ stored = {} =>
                    /\ Len(table) = Len(call.before) + 1
                    /\ SubSeq(table, 1, Len(call.before)) = call.before
                    /\ returned[1] = Some(table[Len(table)])
                    /\ table[Len(table)].cohort_id = call.args.cohort_id
                    /\ table[Len(table)].personas = call.args.personas
                    /\ table[Len(table)].last_turn = None
      /\ C30_Called("setLastTurn") =>
           LET stored == C30_With(call.before, call.args.cohort_id)
           IN  /\ stored = {} =>
                    /\ table = call.before
                    /\ returned[1] = None
               /\ stored # {} =>
                    /\ Len(table) = Len(call.before)
                    /\ \A i \in DOMAIN table :
                         IF i \in stored
                         THEN /\ table[i] = [call.before[i] EXCEPT
                                               !.last_turn = Some(call.args.last_turn)]
                              /\ returned[1] = Some(table[i])
                         ELSE table[i] = call.before[i]
      /\ C30_Called("getByCohortId") =>
           \/ returned[1] = None /\ C30_With(table, call.args.cohort_id) = {}
           \/ \E i \in C30_With(table, call.args.cohort_id) : returned[1] = Some(table[i])

\* with two cohorts stored, the second of them having a turn, a setLastTurn
\* of the first has just replaced its turn
C30_Witness ==
  /\ C30_Called("setLastTurn")
  /\ Len(convex.cohorts) = 2
  /\ call.args.cohort_id = convex.cohorts[1].cohort_id
  /\ call.before[1].last_turn # None
  /\ call.before[1].last_turn # convex.cohorts[1].last_turn
  /\ convex.cohorts[2].last_turn # None

\* a create with the id of a stored cohort and other personas has returned
\* the stored document
C30_CreateTwice ==
  /\ C30_Called("create")
  /\ convex.cohorts = call.before
  /\ returned[1] # None
  /\ returned[1][1].personas # call.args.personas

\* ------------------------------------------------------------------- C27
C27_Created == {r \in CreateIds : requests[r].pc = "responded" /\ requests[r].body.valid}

C27_Matching(body) ==
  {i \in DOMAIN Population : CreateMatches(Population[i], normalizeFilters(body))}

C27_Persisted(r) == C30_With(convex.cohorts, CohortIdOf(r))

\* C27: a create request with a valid body that matches at least one persona
\* is answered 200 only when its cohort is stored, and the answer describes
\* the stored document: cohort_size = min(sample_size, matches),
\* total_matches = matches, personas of distinct uuids; with no match it is
\* answered 404 and nothing is stored or sent
C27_CreateResponds ==
  \A r \in C27_Created :
    LET response == requests[r].response
        matches == Cardinality(C27_Matching(requests[r].body))
    IN  IF matches = 0
        THEN /\ response.status = 404
             /\ C27_Persisted(r) = {}
        ELSE /\ response.status = 200
             /\ \E i \in C27_Persisted(r) :
                  /\ response.cohort_id = convex.cohorts[i].cohort_id
                  /\ response.personas = convex.cohorts[i].personas
             /\ response.cohort_size = Min2(requests[r].body.sample_size, matches)
             /\ response.total_matches = matches
             /\ \A j, k \in DOMAIN response.personas :
                  response.personas[j].uuid = response.personas[k].uuid => j = k

\* a create request has been answered 400 and its cohort has been stored
C27_StoredAfterError ==
  \E r \in C27_Created :
    /\ requests[r].response.status = 400
    /\ C27_Persisted(r) # {}

\* ------------------------------------------------------------------- C26
C26_Calls(r) ==
  IF "calls" \in DOMAIN requests[r] THEN SumOf(requests[r].calls, DOMAIN requests[r].calls)
  ELSE 0

C26_TurnSent(r) ==
  \E i \in DOMAIN convex.pending :
    /\ convex.pending[i].op = "setLastTurn"
    /\ convex.pending[i].args.cohort_id = requests[r].body.cohortId[1]

\* C26: a chat request that names a cohort acts on the record getCohort
\* resolves to: with no stored cohort it is answered 404 with no reply
\* generator call; with a stored cohort and a question it makes one call for
\* each persona of the cohort, answers 502 without a last_turn when fewer
\* than 4 succeed, and else has the turn recorded as the cohort's last_turn
C26_ChatActsOnCohort ==
  \A r \in ChatIds :
    (requests[r].pc = "responded" /\ "cohort" \in DOMAIN requests[r]) =>
      LET stored == requests[r].cohort.resolvesTo
      IN  IF stored = None
          THEN /\ requests[r].response.status = 404
               /\ C26_Calls(r) = 0
          ELSE requests[r].body.question # None =>
                 /\ "calls" \in DOMAIN requests[r]
                 /\ DOMAIN requests[r].calls = DOMAIN stored[1].personas
                 /\ \A i \in DOMAIN requests[r].calls : requests[r].calls[i] = 1
                 /\ Successes(r) < ChatMinResponses =>
                      /\ requests[r].response.status = 502
                      /\ ~C26_TurnSent(r)
                 /\ Successes(r) >= ChatMinResponses => C26_TurnSent(r)

\* a chat request that named a stored cohort and asked a question has been
\* answered 400 without a reply generator call
C26_StoredCohortNoCalls ==
  \E r \in ChatIds :
    /\ requests[r].pc = "responded"
    /\ "cohort" \in DOMAIN requests[r]
    /\ requests[r].cohort.resolvesTo # None
    /\ requests[r].body.question # None
    /\ requests[r].response.status = 400
    /\ C26_Calls(r) = 0

\* ------------------------------------------------------------------- C21
\* the ask requests that ended because the persona dataset did not load
C21_FailedInternally ==
  {r \in AskIds : /\ requests[r].pc = "responded"
                  /\ r \in DOMAIN storeCalls
                  /\ storeCalls[r].persona.status = "rejected"}

\* the ask requests that ended because their body was rejected
C21_RejectedInput ==
  {r \in AskIds : /\ requests[r].pc = "responded"
                  /\ "thrown" \in DOMAIN requests[r]}

\* C21: an ask request that ends with an internal error (its persona dataset
\* did not load) is answered with the request id and without the message of
\* the error, and with another status than a request whose body was rejected
C21_InternalErrorGeneric ==
  \A r \in C21_FailedInternally :
    /\ requests[r].response.request_id = r
    /\ requests[r].response.error # storeCalls[r].persona.error
    /\ \A other \in C21_RejectedInput :
         requests[other].response.status # requests[r].response.status

\* one request was answered 400 with the message of the file system error
\* and another 400 for its body
C21_SameOutcome ==
  \E r \in C21_FailedInternally, other \in C21_RejectedInput :
    /\ requests[r].response.status = 400
    /\ requests[other].response.status = 400
    /\ requests[r].response.error = sNoSuchFile

\* ------------------------------------------------------------------- C25
\* C25: an ask request whose filter matches at least one persona and whose
\* reply generator calls all succeed is answered 200 with one reply for each
\* sampled persona, also when fewer than 5 personas match
C25_AllSucceedIsSuccess ==
  \A r \in AskAnswered :
    (Len(requests[r].sampled) >= 1 /\ Successes(r) = Len(requests[r].sampled)) =>
      /\ requests[r].response.status = 200
      /\ Len(requests[r].response.responses) = Len(requests[r].sampled)

\* a cohort of the two personas that match, both of whose calls succeeded,
\* has been answered 502
C25_SmallCohortFails ==
  \E r \in AskAnswered :
    /\ Len(requests[r].sampled) = 2
    /\ requests[r].total_matches = 2
    /\ Successes(r) = 2
    /\ requests[r].response.status = 502
    /\ requests[r].response.failed_calls = 0

\* ------------------------------------------------------------------- C28
\* the orders a list of n replies can be handed over in
C28_Permutations(n) ==
  {p \in [1..n -> 1..n] : \A i, j \in 1..n : i # j => p[i] # p[j]}

C28_Reordered(responses, p) == [i \in DOMAIN responses |-> responses[p[i]]]

\* C28: aggregateSentiment does not depend on the order of its input: for
\* every permutation of the replies the summary counts, the mean score, the
\* set of areas and the count, mean score and bucket of each area are those
\* of the original order
C28_OrderIndependent ==
  (call.fn = "aggregateSentiment" /\ returned # None) =>
    \A p \in C28_Permutations(Len(call.responses)) :
      LET other == aggregateSentiment(C28_Reordered(call.responses, p))
          result == returned[1]
      IN  /\ other.summary = result.summary
          /\ DOMAIN other.area_sentiments = DOMAIN result.area_sentiments
          /\ \A a \in DOMAIN result.area_sentiments :
                other.area_sentiments[a] = result.area_sentiments[a]

\* three replies of two areas have been aggregated; two of them are of one
\* area with different labels and scores, so that another order is another
\* list
C28_Witness ==
  /\ call.fn = "aggregateSentiment"
  /\ returned # None
  /\ Len(call.responses) = 3
  /\ call.responses[1].planning_area = TAM
  /\ call.responses[2].planning_area = BED
  /\ call.responses[3].planning_area = TAM
  /\ call.responses[1].sentiment # call.responses[3].sentiment
  /\ call.responses[1].score # call.responses[3].score
  /\ DOMAIN returned[1].area_sentiments = {TAM, BED}
  /\ returned[1].area_sentiments[TAM].count = 2

\* ------------------------------------- area identifiers, spelled two ways
\* spellings of the areas "A B" and "AB": letter case, blanks around, runs
\* of blanks and a tab inside
AreaSpellings ==
  { <<"A", " ", "B">>, <<"a", " ", "b">>, <<" ", "A", " ", "B", " ">>,
    <<"a", " ", " ", "b">>, <<"A", "\t", "B">>, <<"A", " ", "b", "\n">>,
    <<"A", "B">>, <<"a", "b", " ">> }

\* a dataset whose two personas have the given spellings of their area
SpelledDataset(a, b) == << Persona(1, 25, sF, sStu, a), Persona(2, 30, sM, sEng, b) >>

\* the filters the ask route builds for a request that names one area
SpelledFilters(asked) ==
  [age_min |-> 18, age_max |-> 80, sex |-> None, occupation_query |-> None,
   planning_area_query |-> None, occupations |-> None,
   planning_areas |-> TrimmedSetOrUndefined(Some(<<asked>>))]

\* the reply of a persona of the store, as the fan-out builds it
SpelledResponse(persona) ==
  [uuid |-> persona.uuid, planning_area |-> persona.planning_area,
   sentiment |-> "positive", score |-> Some(800)]

\* the two datasets name the area as `dataset`, the request as `asked`
InitAreas ==
  /\ InitIdleSystem
  /\ call \in {[fn |-> "areas", dataset |-> a, asked |-> b] :
                  a \in AreaSpellings, b \in AreaSpellings}
  /\ returned = None

\* getPersonaStore and getAreaProfileStore read the datasets
AreasLoad ==
  /\ call.fn = "areas"
  /\ returned = None
  /\ returned' =
       Some([persona |-> PersonaStoreOf(1, SpelledDataset(call.dataset, call.asked)),
             area |-> AreaStoreObject(1, << [planning_area |-> call.asked,
                                            summary |-> sTampinesSummary] >>)])
  /\ UNCHANGED <<call, sysVars, libVars>>

\* filterPersonas with the area of the request
AreasFilter ==
  /\ call.fn = "areas"
  /\ returned # None
  /\ "filtered" \notin DOMAIN returned[1]
  /\ returned' =
       Some([filtered |-> filterPersonas(returned[1].persona.personas,
                                         SpelledFilters(call.asked))]
            @@ returned[1])
  /\ UNCHANGED <<call, sysVars, libVars>>

\* the groups of sampleFromCandidates for the personas of the store
AreasGroup ==
  /\ call.fn = "areas"
  /\ returned # None
  /\ "groups" \notin DOMAIN returned[1]
  /\ returned' = Some([groups |-> AreaKeys(returned[1].persona.personas)] @@ returned[1])
  /\ UNCHANGED <<call, sysVars, libVars>>

\* the area profile the fan-out finds for the first persona
AreasProfile ==
  /\ call.fn = "areas"
  /\ returned # None
  /\ "summary" \notin DOMAIN returned[1]
  /\ returned' =
       Some([summary |-> AreaSummary(returned[1].area, returned[1].persona.personas[1])]
            @@ returned[1])
  /\ UNCHANGED <<call, sysVars, libVars>>

\* aggregateSentiment of one reply of each persona
AreasAggregate ==
  /\ call.fn = "areas"
  /\ returned # None
  /\ "aggregate" \notin DOMAIN returned[1]
  /\ returned' =
       Some([aggregate |->
               aggregateSentiment([i \in 1..2 |->
                  SpelledResponse(returned[1].persona.personas[i])])]
            @@ returned[1])
  /\ UNCHANGED <<call, sysVars, libVars>>

NextAreas ==
  \/ AreasLoad
  \/ AreasFilter
  \/ AreasGroup
  \/ AreasProfile
  \/ AreasAggregate

SpecAreas == InitAreas /\ [][NextAreas]_vars

\* ------------------------------------------------------------------- C23
\* the two spellings differ in letter case and blanks only
C23_SameArea == normalizePlanningArea(call.dataset) = normalizePlanningArea(call.asked)

C23_Done(field) == returned # None /\ field \in DOMAIN returned[1]

\* the store keeps one spelling and one byArea list for the two
C23_IndexedAlike ==
  C23_Done("persona") =>
    LET store == returned[1].persona
    IN  /\ store.personas[1].planning_area = store.personas[2].planning_area
        /\ DOMAIN store.byArea = {store.personas[1].planning_area}
        /\ store.byArea[store.personas[1].planning_area] = store.personas

\* the explicit area of the request matches the personas of the area
C23_FilteredAlike ==
  C23_Done("filtered") => returned[1].filtered = returned[1].persona.personas

C23_GroupedAlike ==
  C23_Done("groups") => Len(returned[1].groups) = 1

C23_ProfileFound ==
  C23_Done("summary") => returned[1].summary = Some(sTampinesSummary)

C23_AggregatedAlike ==
  C23_Done("aggregate") =>
    /\ DOMAIN returned[1].aggregate.area_sentiments
         = {normalizePlanningArea(call.dataset)}
    /\ returned[1].aggregate.area_sentiments[normalizePlanningArea(call.dataset)].count = 2

C23_Idempotent ==
  \A a \in {call.dataset, call.asked} :
    normalizePlanningArea(normalizePlanningArea(a)) = normalizePlanningArea(a)

\* C23: two area identifiers that differ only in letter case, in blanks
\* around them or in runs of blanks inside are the same area for the index
\* of the persona store, for the explicit areas of filterPersonas, for the
\* groups of sampleFromCandidates, for the area profile lookup of the
\* fan-out and for the groups of aggregateSentiment, and
\* normalizePlanningArea is idempotent
C23_AreasTreatedAlike ==
  (call.fn = "areas" /\ C23_SameArea) =>
    /\ C23_IndexedAlike
    /\ C23_FilteredAlike
    /\ C23_GroupedAlike
    /\ C23_ProfileFound
    /\ C23_AggregatedAlike
    /\ C23_Idempotent

\* what holds of the claim: every site but the explicit areas of
\* filterPersonas
C23_AlikeButInFilter ==
  (call.fn = "areas" /\ C23_SameArea) =>
    /\ C23_IndexedAlike
    /\ C23_GroupedAlike
    /\ C23_ProfileFound
    /\ C23_AggregatedAlike
    /\ C23_Idempotent

\* the request names the area of the store with two blanks inside, and
\* filterPersonas has matched no persona
C23_RunOfBlanksNoMatch ==
  /\ call.fn = "areas"
  /\ call.dataset = <<"A", " ", "B">>
  /\ call.asked = <<"a", " ", " ", "b">>
  /\ C23_Done("filtered")
  /\ returned[1].filtered = <<>>

\* ------------------------- the operations of requests on the loaded stores
\* the persona store of a process whose dataset has the first personas
FramePersonaStore == PersonaStoreOf(1, SubSeq(PersonaDataset, 1, MaxFramePersonas))

FrameFilterChoices ==
  {f \in FilterChoices : f.occupation_query = None /\ f.planning_area_query = None}

\* a store whose personas array is now `personas`; the lists of byArea are
\* arrays of their own
StoreWithPersonas(store, personas) == [store EXCEPT !.personas = personas]

InitFrame ==
  /\ InitIdleRoutes
  /\ env = NormalEnv
  /\ windows = NoWindows
  /\ now = 0
  /\ rateLog = <<>>
  /\ convex = EmptyConvex
  /\ personaCache = Some(FramePersonaStore)
  /\ areaCache = Some(WarmAreaStore)
  /\ fileReads = [personaFile |-> 1, areaFile |-> 1, personaCache |-> 1, areaCache |-> 1]
  /\ storeCalls = [c \in CallerIds |-> [persona |-> NotCalled, area |-> NotCalled]]
  /\ gen = GenIdle
  /\ call = NoCall
  /\ returned = None

FrameUnchanged == UNCHANGED <<sysVars, env, rateVars, convex, fileReads, storeCalls, gen>>

\* filterPersonas(store.personas, filters): personas.filter builds a new
\* array
FrameFilter ==
  /\ \E filters \in FrameFilterChoices :
       /\ call' = [fn |-> "filterPersonas", filters |-> filters]
       /\ returned' = Some(filterPersonas(personaCache[1].personas, filters))
  /\ UNCHANGED <<personaCache, areaCache>>
  /\ FrameUnchanged

\* sampleFromCandidates(candidates, sampleSize) with the array that
\* filterPersonas has returned
FrameSample ==
  /\ call.fn = "filterPersonas"
  /\ LET candidates == returned[1]
     IN  \E sampleSize \in 0..Len(candidates) :
           \E rnd \in SampleDraws(candidates, sampleSize) :
             /\ call' = [fn |-> "sampleFromCandidates"]
             /\ returned' = Some(sampleFromCandidates(candidates, sampleSize, rnd))
  /\ UNCHANGED <<personaCache, areaCache>>
  /\ FrameUnchanged

\* samplePersonas(store, sampleSize): sampleFromCandidates on the personas
\* array of the store itself
FrameSamplePersonas ==
  /\ LET store == personaCache[1]
     IN  \E sampleSize \in {1, Len(store.personas)} :
           \E rnd \in SampleDraws(store.personas, sampleSize) :
             /\ call' = [fn |-> "samplePersonas"]
             /\ returned' = Some(sampleFromCandidates(store.personas, sampleSize, rnd))
             /\ personaCache' =
                  Some(StoreWithPersonas(store,
                         CandidatesAfterSample(store.personas, sampleSize, rnd)))
  /\ UNCHANGED areaCache
  /\ FrameUnchanged

\* the fan-out over the sampled personas: each call reads the persona and
\* the area profile
FrameFanOut ==
  /\ call.fn \in {"sampleFromCandidates", "samplePersonas"}
  /\ call' = [fn |-> "fanOut"]
  /\ returned' =
       Some([i \in DOMAIN returned[1] |->
               [uuid |-> returned[1][i].uuid,
                planning_area |-> returned[1][i].planning_area,
                area_context |-> AreaSummary(areaCache[1], returned[1][i]),
                sentiment |-> IF returned[1][i].uuid % 2 = 0 THEN "positive" ELSE "negative",
                score |-> Some(IF returned[1][i].uuid % 2 = 0 THEN 800 ELSE -200)]])
  /\ UNCHANGED <<personaCache, areaCache>>
  /\ FrameUnchanged

\* aggregateSentiment(responses)
FrameAggregate ==
  /\ call.fn = "fanOut"
  /\ call' = [fn |-> "aggregateSentiment", responses |-> returned[1]]
  /\ returned' = Some(aggregateSentiment(returned[1]))
  /\ UNCHANGED <<personaCache, areaCache>>
  /\ FrameUnchanged

NextFrame ==
  \/ FrameFilter
  \/ FrameSample
  \/ FrameSamplePersonas
  \/ FrameFanOut
  \/ FrameAggregate

SpecFrame == InitFrame /\ [][NextFrame]_vars

\* ------------------------------------------------------------------- C24
\* C24: once the persona store and the area profile store are loaded, no
\* operation of a request (filterPersonas, sampleFromCandidates with its
\* shuffles, the fan-out, aggregateSentiment), in whatever order the
\* requests run them, changes the stores: the personas array keeps its
\* content and order, the byArea lists and the persona records are as loaded
C24_StoresReadOnly ==
  /\ personaCache = Some(FramePersonaStore)
  /\ areaCache = Some(WarmAreaStore)

\* sampleFromCandidates has run on the personas array of the store and has
\* returned all its personas, last persona first, and the array of the store
\* is in the order of the dataset
C24_Witness ==
  /\ call.fn = "samplePersonas"
  /\ returned[1][1] = personaCache[1].personas[Len(returned[1])]
  /\ Len(returned[1]) = Len(personaCache[1].personas)
  /\ \E i \in DOMAIN returned[1] : returned[1][i] # personaCache[1].personas[i]
  /\ personaCache[1].personas = FramePersonaStore.personas

\* every operation has run on the loaded stores: an aggregate of a sample
\* of filtered personas is there
C24_AllOperationsRan ==
  /\ call.fn = "aggregateSentiment"
  /\ Len(call.responses) >= 2
  /\ \E i \in DOMAIN call.responses : call.responses[i].area_context # None
  /\ C24_StoresReadOnly

====
